---- MODULE Spec2Model ----
(***************************************************************************)
(* A model of src/gz/bufread.rs of flate2: the resumable gzip header       *)
(* parser (read_gz_header2), the pull-style encoder (GzEncoder) and the    *)
(* member state machine of the decoder (GzDecoder / MultiGzDecoder).       *)
(*                                                                         *)
(* Bytes are naturals 0..255.                                              *)
(***************************************************************************)
EXTENDS Naturals, Sequences, FiniteSets, TLC

(***************************************************************************)
(* Bounds of the model.                                                    *)
(***************************************************************************)
\* longest payload (uncompressed bytes) that is encoded
MaxPayload == 2
\* largest destination buffer handed to a read (0..MaxDst)
MaxDst == 2
\* underlying readers deliver chunks of 1..MaxChunk bytes, or everything
MaxChunk == 2
\* errors after which the caller stops reading
MaxErrs == 2

(***************************************************************************)
(* Program constants.                                                      *)
(***************************************************************************)
FHCRC == 2
FEXTRA == 4
FNAME == 8
FCOMMENT == 16
ID1 == 31
ID2 == 139
CM_DEFLATE == 8
HEADER_LEN == 10
TRAILER_LEN == 8

Min(a, b) == IF a < b THEN a ELSE b

\* flag & bit # 0, for a single-bit mask
HasFlag(flag, bit) == (flag \div bit) % 2 = 1

(***************************************************************************)
(* Fixed-width integers.  A u32 is the pair <<low 16 bits, high 16 bits>>, *)
(* so that shifts, xor, truncation and wrapping keep the width of the Rust *)
(* types.  A u16 and a u8 are naturals.                                    *)
(***************************************************************************)
\* bit k of a, for a < 2^16
Bit(a, k) == (a \div (2 ^ k)) % 2

\* a ^ b for a, b < 256
Xor8(a, b) ==
    ((Bit(a, 0) + Bit(b, 0)) % 2) + 2 * ((Bit(a, 1) + Bit(b, 1)) % 2)
    + 4 * ((Bit(a, 2) + Bit(b, 2)) % 2) + 8 * ((Bit(a, 3) + Bit(b, 3)) % 2)
    + 16 * ((Bit(a, 4) + Bit(b, 4)) % 2) + 32 * ((Bit(a, 5) + Bit(b, 5)) % 2)
    + 64 * ((Bit(a, 6) + Bit(b, 6)) % 2) + 128 * ((Bit(a, 7) + Bit(b, 7)) % 2)

\* what a ^ (1 << k) adds to a
Flip(a, k) == IF Bit(a, k) = 0 THEN 2 ^ k ELSE 0 - (2 ^ k)

\* (u >> 8k) as u8
ByteOf(u, k) ==
    CASE k = 0 -> u[1] % 256
      [] k = 1 -> u[1] \div 256
      [] k = 2 -> u[2] % 256
      [] k = 3 -> u[2] \div 256

\* (b0 << 0) | (b1 << 8) | (b2 << 16) | (b3 << 24)
U32LE(b0, b1, b2, b3) == <<b0 + 256 * b1, b2 + 256 * b3>>

\* (b0 as u16) | ((b1 as u16) << 8)
U16LE(b0, b1) == b0 + 256 * b1

\* u as u16
AsU16(u) == u[1]

Zero32 == <<0, 0>>

Not32(u) == <<65535 - u[1], 65535 - u[2]>>

\* u32::wrapping_add of a natural n < 2^16
WrappingAdd(u, n) ==
    LET s == u[1] + n
    IN  <<s % 65536, (u[2] + (s \div 65536)) % 65536>>

(***************************************************************************)
(* CRC-32 (IEEE 802.3, reflected, polynomial EDB88320), bit by bit.        *)
(***************************************************************************)
\* lo ^ 0x8320, the low half of the polynomial
XorPolyLo(lo) == lo + Flip(lo, 5) + Flip(lo, 8) + Flip(lo, 9) + Flip(lo, 15)

\* hi ^ 0xEDB8, the high half of the polynomial
XorPolyHi(hi) ==
    hi + Flip(hi, 3) + Flip(hi, 4) + Flip(hi, 5) + Flip(hi, 7) + Flip(hi, 8)
    + Flip(hi, 10) + Flip(hi, 11) + Flip(hi, 13) + Flip(hi, 14) + Flip(hi, 15)

\* crc = if crc & 1 != 0 { (crc >> 1) ^ 0xEDB88320 } else { crc >> 1 }
CrcRound(c) ==
    LET lo == (c[1] \div 2) + (c[2] % 2) * 32768
        hi == c[2] \div 2
    IN  IF c[1] % 2 = 1 THEN <<XorPolyLo(lo), XorPolyHi(hi)>>
        ELSE <<lo, hi>>

\* k rounds
RECURSIVE CrcRounds(_, _)
CrcRounds(c, k) == IF k = 0 THEN c ELSE CrcRounds(CrcRound(c), k - 1)

\* crc ^= b, then eight rounds
CrcByte(c, b) ==
    CrcRounds(<<(c[1] \div 256) * 256 + Xor8(c[1] % 256, b), c[2]>>, 8)

RECURSIVE CrcRaw(_, _)
CrcRaw(c, bytes) ==
    LET Rest(n) == IF n[1] >= 0 THEN CrcRaw(n, Tail(bytes)) ELSE n
    IN  IF bytes = <<>> THEN c ELSE Rest(CrcByte(c, Head(bytes)))

\* Hasher::new(): the checksum of no bytes
HasherNew == Zero32

\* Hasher::update: the finalized checksum after feeding bytes
HasherUpdate(sum, bytes) == Not32(CrcRaw(Not32(sum), bytes))

Crc32(bytes) == HasherUpdate(HasherNew, bytes)

\* a u32 as 4 little-endian bytes
LE32(u) == <<ByteOf(u, 0), ByteOf(u, 1), ByteOf(u, 2), ByteOf(u, 3)>>

(***************************************************************************)
(* Sequences of bytes.                                                     *)
(***************************************************************************)
Zeros(n) == [i \in 1..n |-> 0]

Take(s, n) == SubSeq(s, 1, Min(n, Len(s)))

Drop(s, n) == SubSeq(s, Min(n, Len(s)) + 1, Len(s))

\* Fill that writes at the start of the buffer instead of at pos
Fill_AtStart(buf, pos, bytes) ==
    [i \in 1..Len(buf) |-> IF i <= Len(bytes) THEN bytes[i] ELSE buf[i]]

\* buf[pos..pos + len(bytes)] = bytes
Fill(buf, pos, bytes) ==
    [i \in 1..Len(buf) |->
        IF i > pos /\ i <= pos + Len(bytes) THEN bytes[i - pos] ELSE buf[i]]

(***************************************************************************)
(* The underlying reader R (a BufRead supplied by the caller).  It holds   *)
(* the bytes of the stream, how many were consumed, the positions at which *)
(* a chunk ends (a read or fill_buf never crosses one), and the positions  *)
(* at which it still has to report WouldBlock or a fatal error once before *)
(* it goes on.                                                             *)
(***************************************************************************)
Reader(data, cuts, wb, ioerr) ==
    [data |-> data, pos |-> 0, cuts |-> cuts, wb |-> wb, ioerr |-> ioerr]

\* the bytes fill_buf would show: up to the end of the current chunk
Avail(r) ==
    LET ends == {c \in r.cuts : c > r.pos /\ c < Len(r.data)}
        stop == IF ends = {} THEN Len(r.data)
                ELSE CHOOSE c \in ends : \A d \in ends : c <= d
    IN  SubSeq(r.data, r.pos + 1, stop)

\* BufRead::fill_buf
RFillBuf(r) ==
    IF r.pos \in r.ioerr
    THEN [r |-> [r EXCEPT !.ioerr = @ \ {r.pos}], err |-> "TimedOut", bytes |-> <<>>]
    ELSE IF r.pos \in r.wb
    THEN [r |-> [r EXCEPT !.wb = @ \ {r.pos}], err |-> "WouldBlock", bytes |-> <<>>]
    ELSE [r |-> r, err |-> "", bytes |-> Avail(r)]

\* BufRead::consume
RConsume(r, n) == [r EXCEPT !.pos = @ + n]

\* Read::read into a buffer of n bytes
RRead(r, n) ==
    LET Got(f) ==
            IF f.err # "" THEN f
            ELSE [r |-> RConsume(f.r, Len(Take(f.bytes, n))), err |-> "",
                  bytes |-> Take(f.bytes, n)]
    IN  Got(RFillBuf(r))

(***************************************************************************)
(* GzHeader and the header parser.                                         *)
(***************************************************************************)
None == [some |-> FALSE, v |-> <<>>]

Some(v) == [some |-> TRUE, v |-> v]

\* GzHeader::default()
GzHeaderDefault ==
    [extra |-> None, filename |-> None, comment |-> None,
     operating_system |-> 0, mtime |-> Zero32]

\* enum GzHeaderState: Header(pos, buf), ExtraLen(pos, buf), Extra(pos),
\* FileName, Comment, Crc(crc, pos, buf)
GzHeaderState(tag, crc, buflen) ==
    [tag |-> tag, pos |-> 0, buf |-> Zeros(buflen), crc |-> crc]

\* the arguments of read_gz_header2 as GzDecoder::new and read_gz_header
\* set them up
HeaderParse(r) ==
    [r |-> r, state |-> GzHeaderState("Header", 0, HEADER_LEN),
     header |-> GzHeaderDefault, flag |-> 0, hasher |-> HasherNew]

corrupt == "InvalidInput: corrupt gzip stream does not have a matching checksum"

bad_header == "InvalidInput: invalid gzip header"

UnexpectedEof == "UnexpectedEof"

WouldBlock == "WouldBlock"

\* r.read(&mut buf[*pos..]).and_then(|len| if len != 0 {Ok(len)} else
\* {Err(UnexpectedEof)})?; *pos += len  -- for the states that fill state.buf
HdrFillBuf(s) ==
    LET Got(rd) ==
            IF rd.err # "" THEN [s |-> [s EXCEPT !.r = rd.r], ret |-> rd.err]
            ELSE IF rd.bytes = <<>>
            THEN [s |-> [s EXCEPT !.r = rd.r], ret |-> UnexpectedEof]
            ELSE [s |-> [s EXCEPT !.r = rd.r,
                                  !.state.buf = Fill(@, s.state.pos, rd.bytes),
                                  !.state.pos = @ + Len(rd.bytes)],
                  ret |-> "continue"]
    IN  Got(RRead(s.r, Len(s.state.buf) - s.state.pos))

\* HdrHeader without the check of the compression method
HdrHeader_NoCmCheck(s) ==
    LET buf == s.state.buf
        Checked(hashed) ==
            IF buf[1] # ID1 \/ buf[2] # ID2 THEN [s |-> hashed, ret |-> bad_header]
            ELSE [s |-> [hashed EXCEPT
                            !.header.operating_system = buf[10],
                            !.header.mtime = U32LE(buf[5], buf[6], buf[7], buf[8]),
                            !.flag = buf[4],
                            !.state = GzHeaderState("ExtraLen", 0, 2)],
                  ret |-> "continue"]
    IN  IF s.state.pos < Len(buf) THEN HdrFillBuf(s)
        ELSE Checked([s EXCEPT !.hasher = HasherUpdate(@, buf)])

\* GzHeaderState::Header(pos, buf)
HdrHeader(s) ==
    LET buf == s.state.buf
        Checked(hashed) ==
            IF buf[1] # ID1 \/ buf[2] # ID2 THEN [s |-> hashed, ret |-> bad_header]
            ELSE IF buf[3] # CM_DEFLATE THEN [s |-> hashed, ret |-> bad_header]
            ELSE [s |-> [hashed EXCEPT
                            !.header.operating_system = buf[10],
                            !.header.mtime = U32LE(buf[5], buf[6], buf[7], buf[8]),
                            !.flag = buf[4],
                            !.state = GzHeaderState("ExtraLen", 0, 2)],
                  ret |-> "continue"]
    IN  IF s.state.pos < Len(buf) THEN HdrFillBuf(s)
        ELSE Checked([s EXCEPT !.hasher = HasherUpdate(@, buf)])

\* HdrExtraLen that allocates one byte more than XLEN
HdrExtraLen_OneMore(s) ==
    LET buf == s.state.buf
        xlen == U16LE(buf[1], buf[2])
    IN  IF ~HasFlag(s.flag, FEXTRA)
        THEN [s |-> [s EXCEPT !.state = GzHeaderState("FileName", 0, 0)],
              ret |-> "continue"]
        ELSE IF s.state.pos < Len(buf) THEN HdrFillBuf(s)
        ELSE [s |-> [s EXCEPT
                        !.hasher = HasherUpdate(@, buf),
                        !.header.extra = Some(Zeros(xlen + 1)),
                        !.state = IF xlen # 0 THEN GzHeaderState("Extra", 0, 0)
                                  ELSE GzHeaderState("FileName", 0, 0)],
              ret |-> "continue"]

\* GzHeaderState::ExtraLen(pos, buf)
HdrExtraLen(s) ==
    LET buf == s.state.buf
        xlen == U16LE(buf[1], buf[2])
    IN  IF ~HasFlag(s.flag, FEXTRA)
        THEN [s |-> [s EXCEPT !.state = GzHeaderState("FileName", 0, 0)],
              ret |-> "continue"]
        ELSE IF s.state.pos < Len(buf) THEN HdrFillBuf(s)
        ELSE [s |-> [s EXCEPT
                        !.hasher = HasherUpdate(@, buf),
                        !.header.extra = Some(Zeros(xlen)),
                        !.state = IF xlen # 0 THEN GzHeaderState("Extra", 0, 0)
                                  ELSE GzHeaderState("FileName", 0, 0)],
              ret |-> "continue"]

\* HdrExtra that does not leave the state once extra is filled
HdrExtra_Stay(s) ==
    LET extra == s.header.extra.v
        Got(rd) ==
            IF rd.err # "" THEN [s |-> [s EXCEPT !.r = rd.r], ret |-> rd.err]
            ELSE IF rd.bytes = <<>>
            THEN [s |-> [s EXCEPT !.r = rd.r], ret |-> UnexpectedEof]
            ELSE [s |-> [s EXCEPT !.r = rd.r,
                                  !.header.extra.v = Fill(@, s.state.pos, rd.bytes),
                                  !.state.pos = @ + Len(rd.bytes)],
                  ret |-> "continue"]
    IN  IF ~s.header.extra.some THEN [s |-> s, ret |-> "continue"]
        ELSE IF s.state.pos >= Len(extra)
        THEN [s |-> s, ret |-> "continue"]
        ELSE Got(RRead(s.r, Len(extra) - s.state.pos))

\* GzHeaderState::Extra(pos): fills header.extra; when the state is entered
\* with header.extra == None the arm does nothing and the loop spins
HdrExtra(s) ==
    LET extra == s.header.extra.v
        Got(rd) ==
            IF rd.err # "" THEN [s |-> [s EXCEPT !.r = rd.r], ret |-> rd.err]
            ELSE IF rd.bytes = <<>>
            THEN [s |-> [s EXCEPT !.r = rd.r], ret |-> UnexpectedEof]
            ELSE [s |-> [s EXCEPT !.r = rd.r,
                                  !.header.extra.v = Fill(@, s.state.pos, rd.bytes),
                                  !.state.pos = @ + Len(rd.bytes)],
                  ret |-> "continue"]
    IN  IF ~s.header.extra.some THEN [s |-> s, ret |-> "continue"]
        ELSE IF s.state.pos >= Len(extra)
        THEN [s |-> [s EXCEPT !.state = GzHeaderState("FileName", 0, 0)],
              ret |-> "continue"]
        ELSE Got(RRead(s.r, Len(extra) - s.state.pos))

\* for byte in r.by_ref().bytes() { let byte = byte?; if byte == 0 { break; }
\* field.push(byte); }  -- the iterator ends when a read returns 0 bytes.
\* Returns the reader, the field and how the loop ended: "nul", "eof" or
\* the error that left the function.
RECURSIVE ReadBytesToNul(_, _)
ReadBytesToNul(r, field) ==
    LET Got(rd) ==
            IF rd.err # "" THEN [r |-> rd.r, field |-> field, end |-> rd.err]
            ELSE IF rd.bytes = <<>> THEN [r |-> rd.r, field |-> field, end |-> "eof"]
            ELSE IF rd.bytes[1] = 0 THEN [r |-> rd.r, field |-> field, end |-> "nul"]
            ELSE ReadBytesToNul(rd.r, Append(field, rd.bytes[1]))
    IN  Got(RRead(r, 1))

\* GzHeaderState::FileName
HdrFileName(s) ==
    LET Got(rb) ==
            IF rb.end \notin {"nul", "eof"}
            THEN [s |-> [s EXCEPT !.r = rb.r, !.header.filename = Some(rb.field)],
                  ret |-> rb.end]
            ELSE [s |-> [s EXCEPT !.r = rb.r,
                                  !.header.filename = Some(rb.field),
                                  !.hasher = HasherUpdate(@, rb.field \o <<0>>),
                                  !.state = GzHeaderState("Comment", 0, 0)],
                  ret |-> "continue"]
    IN  IF ~HasFlag(s.flag, FNAME)
        THEN [s |-> [s EXCEPT !.state = GzHeaderState("Comment", 0, 0)],
              ret |-> "continue"]
        ELSE Got(ReadBytesToNul(s.r, s.header.filename.v))

\* GzHeaderState::Comment
HdrComment(s) ==
    LET Hashed(rb, hashed) ==
            [s |-> [s EXCEPT !.r = rb.r,
                             !.header.comment = Some(rb.field),
                             !.hasher = hashed,
                             !.state = GzHeaderState("Crc", AsU16(hashed), 2)],
             ret |-> "continue"]
        Got(rb) ==
            IF rb.end \notin {"nul", "eof"}
            THEN [s |-> [s EXCEPT !.r = rb.r, !.header.comment = Some(rb.field)],
                  ret |-> rb.end]
            ELSE Hashed(rb, HasherUpdate(s.hasher, rb.field \o <<0>>))
    IN  IF ~HasFlag(s.flag, FCOMMENT)
        THEN [s |-> [s EXCEPT !.state = GzHeaderState("Crc", AsU16(s.hasher), 2)],
              ret |-> "continue"]
        ELSE Got(ReadBytesToNul(s.r, s.header.comment.v))

\* GzHeaderState::Crc(calced_crc, pos, buf)
HdrCrc(s) ==
    LET buf == s.state.buf
        stored_crc == U16LE(buf[1], buf[2])
    IN  IF ~HasFlag(s.flag, FHCRC) THEN [s |-> s, ret |-> "Ok"]
        ELSE IF s.state.pos < Len(buf) THEN HdrFillBuf(s)
        ELSE IF s.state.crc # stored_crc THEN [s |-> s, ret |-> corrupt]
        ELSE [s |-> s, ret |-> "Ok"]

\* one iteration of the loop of read_gz_header2
HdrIter(s) ==
    CASE s.state.tag = "Header" -> HdrHeader(s)
      [] s.state.tag = "ExtraLen" -> HdrExtraLen(s)
      [] s.state.tag = "Extra" -> HdrExtra(s)
      [] s.state.tag = "FileName" -> HdrFileName(s)
      [] s.state.tag = "Comment" -> HdrComment(s)
      [] s.state.tag = "Crc" -> HdrCrc(s)

\* read_gz_header2: iterate until an arm returns.  ret is "Ok" or the error.
RECURSIVE read_gz_header2(_)
read_gz_header2(s) ==
    LET Go(i) == IF i.ret = "continue" THEN read_gz_header2(i.s) ELSE i
    IN  Go(HdrIter(s))

(***************************************************************************)
(* The DEFLATE engine (deflate::bufread::DeflateDecoder over Decompress)   *)
(* and the CRC-counting wrapper (crc::CrcReader).  The engine is modelled  *)
(* on RFC 1951 stored blocks: a block-header byte (bit 0 BFINAL, bits 1..2 *)
(* BTYPE), LEN and NLEN = ~LEN little-endian, then LEN literal bytes.  A   *)
(* block of another type is reported as a corrupt stream.                  *)
(***************************************************************************)
\* a payload as one final stored block (RFC 1951, 3.2.4)
DeflateStored(P) ==
    <<1, Len(P) % 256, Len(P) \div 256, 255 - (Len(P) % 256), 255 - (Len(P) \div 256)>>
    \o P

\* Decompress::new
InflateNew == [ph |-> "head", final |-> FALSE, lenbuf |-> <<>>, left |-> 0]

AfterBlock(st) == [st EXCEPT !.ph = IF st.final THEN "end" ELSE "head",
                             !.lenbuf = <<>>, !.left = 0]

\* one input byte taken in the phases that parse the block header
InflateHeaderByte(st, b) ==
    LET lb == Append(st.lenbuf, b)
    IN  IF st.ph = "head"
        THEN IF (b \div 2) % 4 # 0 THEN [st EXCEPT !.ph = "bad"]
             ELSE [st EXCEPT !.ph = "len", !.final = (b % 2 = 1), !.lenbuf = <<>>]
        ELSE IF Len(lb) < 4 THEN [st EXCEPT !.lenbuf = lb]
        ELSE IF lb[3] # 255 - lb[1] \/ lb[4] # 255 - lb[2] THEN [st EXCEPT !.ph = "bad"]
        ELSE IF U16LE(lb[1], lb[2]) = 0 THEN AfterBlock(st)
        ELSE [st EXCEPT !.ph = "data", !.lenbuf = <<>>, !.left = U16LE(lb[1], lb[2])]

\* Decompress::run(input, dst, flush): consumes input and fills dst as far
\* as it can.  acc = [st, consumed, out]; n is dst.len().
RECURSIVE InflateRun(_, _, _)
InflateRun(acc, input, n) ==
    LET st == acc.st
        more == acc.consumed < Len(input)
        k == Min(Min(st.left, n - Len(acc.out)), Len(input) - acc.consumed)
        copied == [acc EXCEPT
                     !.st = IF st.left = k THEN AfterBlock(st)
                            ELSE [st EXCEPT !.left = @ - k],
                     !.consumed = @ + k,
                     !.out = @ \o SubSeq(input, acc.consumed + 1, acc.consumed + k)]
    IN  CASE st.ph = "end" -> [acc EXCEPT !.status = "StreamEnd"]
          [] st.ph = "bad" -> [acc EXCEPT !.status = "Err"]
          [] st.ph = "data" ->
                IF k = 0 THEN [acc EXCEPT !.status = "Ok"]
                ELSE InflateRun(copied, input, n)
          [] OTHER ->
                IF ~more THEN [acc EXCEPT !.status = "Ok"]
                ELSE InflateRun(
                        [acc EXCEPT !.st = InflateHeaderByte(st, input[acc.consumed + 1]),
                                    !.consumed = @ + 1], input, n)

corrupt_deflate == "InvalidInput: corrupt deflate stream"

\* zio::read(obj, data, dst) for the decoder: d = [infl, r]; returns
\* [d, err, bytes]
RECURSIVE DeflateDecoderRead(_, _)
DeflateDecoderRead(d, n) ==
    LET Ran(f, run, d2) ==
            IF run.status = "Err" THEN [d |-> d2, err |-> corrupt_deflate, bytes |-> <<>>]
            ELSE IF run.status = "Ok" /\ run.out = <<>> /\ f.bytes # <<>> /\ n > 0
            THEN DeflateDecoderRead(d2, n)
            ELSE [d |-> d2, err |-> "", bytes |-> run.out]
        Run(f, run) == Ran(f, run, [infl |-> run.st, r |-> RConsume(f.r, run.consumed)])
        Got(f) ==
            IF f.err # "" THEN [d |-> [d EXCEPT !.r = f.r], err |-> f.err, bytes |-> <<>>]
            ELSE Run(f, InflateRun([st |-> d.infl, consumed |-> 0, out |-> <<>>,
                                    status |-> ""], f.bytes, n))
    IN  Got(RFillBuf(d.r))

\* Crc::new
CrcNew == [sum |-> HasherNew, amt |-> Zero32]

\* Crc::update
CrcUpdate(crc, bytes) ==
    [sum |-> HasherUpdate(crc.sum, bytes), amt |-> WrappingAdd(crc.amt, Len(bytes))]

(***************************************************************************)
(* GzEncoder.  The compressor (deflate::bufread::DeflateEncoder over       *)
(* Compress) is modelled as one that holds its input until it is told to   *)
(* finish and then emits it as one final stored block.                     *)
(***************************************************************************)
\* Compress::new
DeflateNew == [held |-> <<>>, outq |-> <<>>, finished |-> FALSE]

\* Compress::run(input, dst, flush): takes the input in, and once finishing
\* hands out as much of the block as dst (of n bytes) holds
DeflateRun(c, input, n, finishing) ==
    LET c1 == IF c.finished THEN c ELSE [c EXCEPT !.held = @ \o input]
        c2 == IF finishing /\ ~c1.finished
              THEN [held |-> <<>>, outq |-> DeflateStored(c1.held), finished |-> TRUE]
              ELSE c1
        out == Take(c2.outq, n)
    IN  [c |-> [c2 EXCEPT !.outq = Drop(@, Len(out))],
         consumed |-> IF c.finished THEN 0 ELSE Len(input),
         out |-> out]

\* zio::read(obj, data, dst) for the encoder over the CrcReader:
\* d = [comp, crc, r]; returns [d, err, bytes]
RECURSIVE DeflateEncoderRead(_, _)
DeflateEncoderRead(d, n) ==
    LET Ran(f, run, d2) ==
            IF run.out = <<>> /\ f.bytes # <<>> /\ n > 0 THEN DeflateEncoderRead(d2, n)
            ELSE [d |-> d2, err |-> "", bytes |-> run.out]
        Run(f, run) ==
            Ran(f, run, [comp |-> run.c,
                         crc |-> CrcUpdate(d.crc, Take(f.bytes, run.consumed)),
                         r |-> RConsume(f.r, run.consumed)])
        Got(f) ==
            IF f.err # "" THEN [d |-> [d EXCEPT !.r = f.r], err |-> f.err, bytes |-> <<>>]
            ELSE Run(f, DeflateRun(d.comp, f.bytes, n, f.bytes = <<>>))
    IN  Got(RFillBuf(d.r))

\* what a slot of a destination buffer holds before anything is written
Untouched == 256

\* a destination buffer of n bytes as the caller hands it in
Dst(n) == [i \in 1..n |-> Untouched]

\* copy that takes the bytes from the start of from, whatever pos is
copy_FromStart(into, from, pos) ==
    LET min == Min(Len(into), Len(from) - pos)
    IN  [into |-> [i \in 1..Len(into) |-> IF i <= min THEN from[i] ELSE into[i]],
         pos |-> pos + min,
         n |-> min]

\* copy(into, from, pos)
copy(into, from, pos) ==
    LET min == Min(Len(into), Len(from) - pos)
    IN  [into |-> [i \in 1..Len(into) |-> IF i <= min THEN from[pos + i] ELSE into[i]],
         pos |-> pos + min,
         n |-> min]

\* gz_encoder(header, r, lvl)
gz_encoder(hdr, r) ==
    [inner |-> [comp |-> DeflateNew, crc |-> CrcNew, r |-> r],
     header |-> hdr, pos |-> 0, eof |-> FALSE]

\* read_footer with the byte count written before the checksum
read_footer_AmountFirst(e, into) ==
    LET Copied(c) == [e |-> [e EXCEPT !.pos = c.pos], into |-> c.into, n |-> c.n]
    IN  IF e.pos = TRAILER_LEN THEN [e |-> e, into |-> into, n |-> 0]
        ELSE Copied(copy(into, LE32(e.inner.crc.amt) \o LE32(e.inner.crc.sum), e.pos))

\* read_footer that starts the trailer again once it is delivered
read_footer_Restart(e, into) ==
    LET Copied(c) == [e |-> [e EXCEPT !.pos = c.pos], into |-> c.into, n |-> c.n]
    IN  Copied(copy(into, LE32(e.inner.crc.sum) \o LE32(e.inner.crc.amt),
                    e.pos % TRAILER_LEN))

\* GzEncoder::read_footer
read_footer(e, into) ==
    LET Copied(c) == [e |-> [e EXCEPT !.pos = c.pos], into |-> c.into, n |-> c.n]
    IN  IF e.pos = TRAILER_LEN THEN [e |-> e, into |-> into, n |-> 0]
        ELSE Copied(copy(into, LE32(e.inner.crc.sum) \o LE32(e.inner.crc.amt), e.pos))

\* GzEncoder::read that returns the count of the compressor alone, without
\* the header bytes copied in the same call
GzEncoderRead_BodyCountOnly(e, n) ==
    LET Footer(f, head) ==
            [e |-> f.e, err |-> "", n |-> f.n, into |-> head \o f.into]
        \* match self.inner.read(into)?, into being the tail left after amt bytes
        Body(e1, amt, head, tail, rd) ==
            IF rd.err # ""
            THEN [e |-> [e1 EXCEPT !.inner = rd.d], err |-> rd.err, n |-> 0,
                  into |-> head \o tail]
            ELSE IF rd.bytes = <<>>
            THEN Footer(read_footer([e1 EXCEPT !.inner = rd.d, !.eof = TRUE, !.pos = 0],
                                    tail), head)
            ELSE [e |-> [e1 EXCEPT !.inner = rd.d], err |-> "", n |-> Len(rd.bytes),
                  into |-> head \o Fill(tail, 0, rd.bytes)]
        \* after the copy of header bytes, if any: c = [into, pos, n]
        Header(inHeader, c) ==
            IF inHeader /\ c.n = n
            THEN [e |-> [e EXCEPT !.pos = c.pos], err |-> "", n |-> c.n, into |-> c.into]
            ELSE Body([e EXCEPT !.pos = c.pos], c.n, Take(c.into, c.n), Drop(c.into, c.n),
                      DeflateEncoderRead(e.inner, n - c.n))
    IN  IF e.eof THEN Footer(read_footer(e, Dst(n)), <<>>)
        ELSE IF e.pos < Len(e.header) THEN Header(TRUE, copy(Dst(n), e.header, e.pos))
        ELSE Header(FALSE, [into |-> Dst(n), pos |-> e.pos, n |-> 0])

\* GzEncoder::read with a buffer of n bytes: returns [e, err, n, into], the
\* encoder after the call, the error ("" for Ok), the count returned and the
\* buffer as the call left it
GzEncoderRead(e, n) ==
    LET Footer(f, head) ==
            [e |-> f.e, err |-> "", n |-> f.n, into |-> head \o f.into]
        \* match self.inner.read(into)?, into being the tail left after amt bytes
        Body(e1, amt, head, tail, rd) ==
            IF rd.err # ""
            THEN [e |-> [e1 EXCEPT !.inner = rd.d], err |-> rd.err, n |-> 0,
                  into |-> head \o tail]
            ELSE IF rd.bytes = <<>>
            THEN Footer(read_footer([e1 EXCEPT !.inner = rd.d, !.eof = TRUE, !.pos = 0],
                                    tail), head)
            ELSE [e |-> [e1 EXCEPT !.inner = rd.d], err |-> "", n |-> amt + Len(rd.bytes),
                  into |-> head \o Fill(tail, 0, rd.bytes)]
        \* after the copy of header bytes, if any: c = [into, pos, n]
        Header(inHeader, c) ==
            IF inHeader /\ c.n = n
            THEN [e |-> [e EXCEPT !.pos = c.pos], err |-> "", n |-> c.n, into |-> c.into]
            ELSE Body([e EXCEPT !.pos = c.pos], c.n, Take(c.into, c.n), Drop(c.into, c.n),
                      DeflateEncoderRead(e.inner, n - c.n))
    IN  IF e.eof THEN Footer(read_footer(e, Dst(n)), <<>>)
        ELSE IF e.pos < Len(e.header) THEN Header(TRUE, copy(Dst(n), e.header, e.pos))
        ELSE Header(FALSE, [into |-> Dst(n), pos |-> e.pos, n |-> 0])

(***************************************************************************)
(* GzDecoder.                                                              *)
(***************************************************************************)
\* enum GzState: Header{state, flag, hasher}, Body, Finished(pos, buf),
\* Err(err), End.  "Unbuilt" stands for the decoder not yet constructed.
GzState(tag) ==
    [tag |-> tag, state |-> GzHeaderState("", 0, 0), flag |-> 0, hasher |-> HasherNew,
     pos |-> 0, buf |-> <<>>, err |-> ""]

GzStateHeader ==
    [GzState("Header") EXCEPT !.state = GzHeaderState("Header", 0, HEADER_LEN)]

GzStateFinished == [GzState("Finished") EXCEPT !.buf = Zeros(TRAILER_LEN)]

GzStateErr(err) == [GzState("Err") EXCEPT !.err = err]

\* the reader handed to the constructor, before it is called
Unbuilt(r) ==
    [inner |-> GzState("Unbuilt"), header |-> GzHeaderDefault, crc |-> CrcNew,
     infl |-> InflateNew, r |-> r, multi |-> FALSE]

\* GzDecoder::new(r).multi(flag): parses the header at once
GzDecoderNew(r, flag) ==
    LET Make(res) ==
            [inner |-> IF res.ret # "Ok" THEN GzStateErr(res.ret) ELSE GzState("Body"),
             header |-> res.s.header, crc |-> CrcNew, infl |-> InflateNew,
             r |-> res.s.r, multi |-> flag]
    IN  Make(read_gz_header2(HeaderParse(r)))

\* GzDecoder::new2(r).multi(flag)
GzDecoderNew2(r, flag) ==
    [inner |-> GzStateHeader, header |-> GzHeaderDefault, crc |-> CrcNew,
     infl |-> InflateNew, r |-> r, multi |-> flag]

\* GzDecoder::header
header(g) == IF g.inner.tag \in {"Err", "Header"} THEN None ELSE Some(g.header)

\* finish(buf)
finish(buf) == <<U32LE(buf[1], buf[2], buf[3], buf[4]),
                 U32LE(buf[5], buf[6], buf[7], buf[8])>>

RetContinue == [kind |-> "continue", err |-> "", bytes |-> <<>>]

RetOk(bytes) == [kind |-> "ok", err |-> "", bytes |-> bytes]

RetErr(err) == [kind |-> "err", err |-> err, bytes |-> <<>>]

\* Next::Err(err): *inner = GzState::End; return Err(err)
NextErr(g, err) == [g |-> [g EXCEPT !.inner = GzState("End")], ret |-> RetErr(err)]

\* ReadHeader that treats WouldBlock like every other error
ReadHeader_StickyWouldBlock(g) ==
    LET Parsed(res, g2) ==
            IF res.ret = "Ok"
            THEN [g |-> [g2 EXCEPT !.inner = GzState("Body")], ret |-> RetContinue]
            ELSE NextErr(g2, res.ret)
        Got(res) ==
            Parsed(res, [g EXCEPT !.r = res.s.r, !.header = res.s.header,
                                  !.inner.state = res.s.state, !.inner.flag = res.s.flag,
                                  !.inner.hasher = res.s.hasher])
    IN  Got(read_gz_header2([r |-> g.r, state |-> g.inner.state, header |-> g.header,
                             flag |-> g.inner.flag, hasher |-> g.inner.hasher]))

\* the arm GzState::Header of GzDecoder::read
ReadHeader(g) ==
    LET Parsed(res, g2) ==
            IF res.ret = "Ok"
            THEN [g |-> [g2 EXCEPT !.inner = GzState("Body")], ret |-> RetContinue]
            ELSE IF res.ret = WouldBlock THEN [g |-> g2, ret |-> RetErr(res.ret)]
            ELSE NextErr(g2, res.ret)
        Got(res) ==
            Parsed(res, [g EXCEPT !.r = res.s.r, !.header = res.s.header,
                                  !.inner.state = res.s.state, !.inner.flag = res.s.flag,
                                  !.inner.hasher = res.s.hasher])
    IN  Got(read_gz_header2([r |-> g.r, state |-> g.inner.state, header |-> g.header,
                             flag |-> g.inner.flag, hasher |-> g.inner.hasher]))

\* ReadBody that ends the stream at the first read of 0 bytes, without
\* going through the trailer
ReadBody_NoTrailer(g, n) ==
    LET Got(rd, g2) ==
            IF rd.err # "" THEN [g |-> g2, ret |-> RetErr(rd.err)]
            ELSE IF rd.bytes = <<>>
            THEN [g |-> [g2 EXCEPT !.inner = GzState("End")], ret |-> RetContinue]
            ELSE [g |-> [g2 EXCEPT !.crc = CrcUpdate(@, rd.bytes)],
                  ret |-> RetOk(rd.bytes)]
        Inner(rd) == Got(rd, [g EXCEPT !.infl = rd.d.infl, !.r = rd.d.r])
    IN  IF n = 0 THEN [g |-> g, ret |-> RetOk(<<>>)]
        ELSE Inner(DeflateDecoderRead([infl |-> g.infl, r |-> g.r], n))

\* ReadBody that returns the 0 of the engine to the caller while it moves
\* to the trailer
ReadBody_ReturnsZero(g, n) ==
    LET Got(rd, g2) ==
            IF rd.err # "" THEN [g |-> g2, ret |-> RetErr(rd.err)]
            ELSE IF rd.bytes = <<>>
            THEN [g |-> [g2 EXCEPT !.inner = GzStateFinished], ret |-> RetOk(<<>>)]
            ELSE [g |-> [g2 EXCEPT !.crc = CrcUpdate(@, rd.bytes)],
                  ret |-> RetOk(rd.bytes)]
        Inner(rd) == Got(rd, [g EXCEPT !.infl = rd.d.infl, !.r = rd.d.r])
    IN  IF n = 0 THEN [g |-> g, ret |-> RetOk(<<>>)]
        ELSE Inner(DeflateDecoderRead([infl |-> g.infl, r |-> g.r], n))

\* ReadBody without the test for an empty destination
ReadBody_NoEmptyTest(g, n) ==
    LET Got(rd, g2) ==
            IF rd.err # "" THEN [g |-> g2, ret |-> RetErr(rd.err)]
            ELSE IF rd.bytes = <<>>
            THEN [g |-> [g2 EXCEPT !.inner = GzStateFinished], ret |-> RetContinue]
            ELSE [g |-> [g2 EXCEPT !.crc = CrcUpdate(@, rd.bytes)],
                  ret |-> RetOk(rd.bytes)]
        Inner(rd) == Got(rd, [g EXCEPT !.infl = rd.d.infl, !.r = rd.d.r])
    IN  Inner(DeflateDecoderRead([infl |-> g.infl, r |-> g.r], n))

\* the arm GzState::Body: reader.read(into)? through the CrcReader
ReadBody(g, n) ==
    LET Got(rd, g2) ==
            IF rd.err # "" THEN [g |-> g2, ret |-> RetErr(rd.err)]
            ELSE IF rd.bytes = <<>>
            THEN [g |-> [g2 EXCEPT !.inner = GzStateFinished], ret |-> RetContinue]
            ELSE [g |-> [g2 EXCEPT !.crc = CrcUpdate(@, rd.bytes)],
                  ret |-> RetOk(rd.bytes)]
        Inner(rd) == Got(rd, [g EXCEPT !.infl = rd.d.infl, !.r = rd.d.r])
    IN  IF n = 0 THEN [g |-> g, ret |-> RetOk(<<>>)]
        ELSE Inner(DeflateDecoderRead([infl |-> g.infl, r |-> g.r], n))

\* NextHeader without reader.reset(): the CrcReader goes on counting
NextHeader_KeepCrc(g) ==
    [g EXCEPT !.infl = InflateNew, !.header = GzHeaderDefault,
              !.inner = GzStateHeader]

\* Next::Header: the decoder is reset for the next member
NextHeader(g) ==
    [g EXCEPT !.crc = CrcNew, !.infl = InflateNew, !.header = GzHeaderDefault,
              !.inner = GzStateHeader]

\* ReadFinished without the comparison of ISIZE with the byte count
ReadFinished_NoAmount(g) ==
    LET t == finish(g.inner.buf)
        \* reader.get_mut().get_mut().read(&mut buf[*pos..])
        Stored(rd, gr) ==
            IF rd.err = WouldBlock THEN [g |-> gr, ret |-> RetErr(rd.err)]
            ELSE IF rd.err # "" THEN NextErr(gr, rd.err)
            ELSE IF rd.bytes = <<>> THEN NextErr(gr, UnexpectedEof)
            ELSE [g |-> [gr EXCEPT !.inner.buf = Fill(@, g.inner.pos, rd.bytes),
                                   !.inner.pos = @ + Len(rd.bytes)],
                  ret |-> RetContinue]
        \* reader.get_mut().get_mut().fill_buf()
        Peek(fb, gf) ==
            IF fb.err = WouldBlock THEN [g |-> gf, ret |-> RetErr(fb.err)]
            ELSE IF fb.err # "" THEN NextErr(gf, fb.err)
            ELSE IF fb.bytes = <<>>
            THEN [g |-> [gf EXCEPT !.inner = GzState("End")], ret |-> RetContinue]
            ELSE [g |-> NextHeader(gf), ret |-> RetContinue]
        Read8(rd) == Stored(rd, [g EXCEPT !.r = rd.r])
        Filled(fb) == Peek(fb, [g EXCEPT !.r = fb.r])
    IN  IF g.inner.pos < Len(g.inner.buf)
        THEN Read8(RRead(g.r, Len(g.inner.buf) - g.inner.pos))
        ELSE IF t[1] # g.crc.sum THEN NextErr(g, corrupt)
        ELSE IF ~g.multi
        THEN [g |-> [g EXCEPT !.inner = GzState("End")], ret |-> RetContinue]
        ELSE Filled(RFillBuf(g.r))

\* ReadFinished that looks for a following member whatever multi says
ReadFinished_AlwaysPeek(g) ==
    LET t == finish(g.inner.buf)
        Stored(rd, gr) ==
            IF rd.err = WouldBlock THEN [g |-> gr, ret |-> RetErr(rd.err)]
            ELSE IF rd.err # "" THEN NextErr(gr, rd.err)
            ELSE IF rd.bytes = <<>> THEN NextErr(gr, UnexpectedEof)
            ELSE [g |-> [gr EXCEPT !.inner.buf = Fill(@, g.inner.pos, rd.bytes),
                                   !.inner.pos = @ + Len(rd.bytes)],
                  ret |-> RetContinue]
        Peek(fb, gf) ==
            IF fb.err = WouldBlock THEN [g |-> gf, ret |-> RetErr(fb.err)]
            ELSE IF fb.err # "" THEN NextErr(gf, fb.err)
            ELSE IF fb.bytes = <<>>
            THEN [g |-> [gf EXCEPT !.inner = GzState("End")], ret |-> RetContinue]
            ELSE [g |-> NextHeader(gf), ret |-> RetContinue]
        Read8(rd) == Stored(rd, [g EXCEPT !.r = rd.r])
        Filled(fb) == Peek(fb, [g EXCEPT !.r = fb.r])
    IN  IF g.inner.pos < Len(g.inner.buf)
        THEN Read8(RRead(g.r, Len(g.inner.buf) - g.inner.pos))
        ELSE IF t[1] # g.crc.sum THEN NextErr(g, corrupt)
        ELSE IF t[2] # g.crc.amt THEN NextErr(g, corrupt)
        ELSE Filled(RFillBuf(g.r))

\* the arm GzState::Finished(pos, buf)
ReadFinished(g) ==
    LET t == finish(g.inner.buf)
        \* reader.get_mut().get_mut().read(&mut buf[*pos..])
        Stored(rd, gr) ==
            IF rd.err = WouldBlock THEN [g |-> gr, ret |-> RetErr(rd.err)]
            ELSE IF rd.err # "" THEN NextErr(gr, rd.err)
            ELSE IF rd.bytes = <<>> THEN NextErr(gr, UnexpectedEof)
            ELSE [g |-> [gr EXCEPT !.inner.buf = Fill(@, g.inner.pos, rd.bytes),
                                   !.inner.pos = @ + Len(rd.bytes)],
                  ret |-> RetContinue]
        \* reader.get_mut().get_mut().fill_buf()
        Peek(fb, gf) ==
            IF fb.err = WouldBlock THEN [g |-> gf, ret |-> RetErr(fb.err)]
            ELSE IF fb.err # "" THEN NextErr(gf, fb.err)
            ELSE IF fb.bytes = <<>>
            THEN [g |-> [gf EXCEPT !.inner = GzState("End")], ret |-> RetContinue]
            ELSE [g |-> NextHeader(gf), ret |-> RetContinue]
        Read8(rd) == Stored(rd, [g EXCEPT !.r = rd.r])
        Filled(fb) == Peek(fb, [g EXCEPT !.r = fb.r])
    IN  IF g.inner.pos < Len(g.inner.buf)
        THEN Read8(RRead(g.r, Len(g.inner.buf) - g.inner.pos))
        ELSE IF t[1] # g.crc.sum THEN NextErr(g, corrupt)
        ELSE IF t[2] # g.crc.amt THEN NextErr(g, corrupt)
        ELSE IF ~g.multi
        THEN [g |-> [g EXCEPT !.inner = GzState("End")], ret |-> RetContinue]
        ELSE Filled(RFillBuf(g.r))

\* ReadIter whose arm End reads a byte from the underlying reader
ReadIter_EndReads(g, n) ==
    CASE g.inner.tag = "Header" -> ReadHeader(g)
      [] g.inner.tag = "Body" -> ReadBody(g, n)
      [] g.inner.tag = "Finished" -> ReadFinished(g)
      [] g.inner.tag = "Err" -> NextErr(g, g.inner.err)
      [] g.inner.tag = "End" -> [g |-> [g EXCEPT !.r = RRead(g.r, 1).r],
                                 ret |-> RetOk(<<>>)]

\* one iteration of the loop of GzDecoder::read; n is into.len()
ReadIter(g, n) ==
    CASE g.inner.tag = "Header" -> ReadHeader(g)
      [] g.inner.tag = "Body" -> ReadBody(g, n)
      [] g.inner.tag = "Finished" -> ReadFinished(g)
      [] g.inner.tag = "Err" -> NextErr(g, g.inner.err)
      [] g.inner.tag = "End" -> [g |-> g, ret |-> RetOk(<<>>)]

\* What a call of read went through, for the properties: the state in
\* which its last loop iteration ran (last), the reader positions at which
\* it accepted a trailer (ends), and whether the last thing it did about a
\* header was to finish parsing one ("ok") or to start on a new member
\* ("reset").
NoTrace == [last |-> GzState(""), ends |-> <<>>, hdr |-> "", resets |-> 0]

Traced(tr, g, i) ==
    [last |-> g.inner,
     ends |-> IF g.inner.tag = "Finished" /\ i.ret.kind = "continue"
                 /\ i.g.inner.tag \in {"End", "Header"}
              THEN Append(tr.ends, g.r.pos) ELSE tr.ends,
     hdr |-> IF g.inner.tag = "Header" /\ i.g.inner.tag = "Body" THEN "ok"
             ELSE IF g.inner.tag = "Finished" /\ i.g.inner.tag = "Header" THEN "reset"
             ELSE tr.hdr,
     resets |-> IF g.inner.tag = "Finished" /\ i.g.inner.tag = "Header"
                THEN tr.resets + 1 ELSE tr.resets]

\* the loop of GzDecoder::read
RECURSIVE ReadLoop(_, _, _)
ReadLoop(g, n, tr) ==
    LET Go(i, tr2) ==
            IF i.ret.kind = "continue" THEN ReadLoop(i.g, n, tr2)
            ELSE [g |-> i.g, ret |-> i.ret, tr |-> tr2]
        Done(i) == Go(i, Traced(tr, g, i))
    IN  Done(ReadIter(g, n))

\* GzDecoder::read (and MultiGzDecoder::read) with a buffer of n bytes
GzDecoderRead(g, n) == ReadLoop(g, n, NoTrace)

(***************************************************************************)
(* The gzip wire format (RFC 1952): the bytes of a member header.          *)
(***************************************************************************)
\* the header bytes before the optional header CRC; h gives the flag bits
\* and fields: [hcrc, extra, filename, comment: options; mtime: 4 bytes; os]
HeaderBody(h) ==
    LET flg == (IF h.hcrc THEN FHCRC ELSE 0) + (IF h.extra.some THEN FEXTRA ELSE 0)
               + (IF h.filename.some THEN FNAME ELSE 0)
               + (IF h.comment.some THEN FCOMMENT ELSE 0)
    IN  <<ID1, ID2, CM_DEFLATE, flg>> \o h.mtime \o <<0, h.os>>
        \o (IF h.extra.some
            THEN <<Len(h.extra.v) % 256, Len(h.extra.v) \div 256>> \o h.extra.v
            ELSE <<>>)
        \o (IF h.filename.some THEN h.filename.v \o <<0>> ELSE <<>>)
        \o (IF h.comment.some THEN h.comment.v \o <<0>> ELSE <<>>)

\* the whole header: with FHCRC, the low 16 bits of the CRC-32 of all the
\* bytes before it, little-endian
HeaderBytes(h) ==
    LET body == HeaderBody(h)
        c == AsU16(Crc32(body))
    IN  IF h.hcrc THEN body \o <<c % 256, c \div 256>> ELSE body

(***************************************************************************)
(* Inputs.                                                                 *)
(***************************************************************************)
\* values of the optional fields that are drawn
FieldVals == {None, Some(<<>>), Some(<<97>>)}

HeaderSpecs ==
    {[hcrc |-> c, extra |-> e, filename |-> f, comment |-> k,
      mtime |-> <<1, 2, 3, 132>>, os |-> 3] :
        c \in BOOLEAN, e \in FieldVals, f \in FieldVals, k \in FieldVals}

\* values a damaged byte takes
DamageVals == {0, 1, 9}

\* data with byte i (1-based) replaced by v
Damage(data, i, v) == [data EXCEPT ![i] = v]

\* the places and values at which data is damaged
DamagePoints(data) == {p \in (1..Len(data)) \X DamageVals : data[p[1]] # p[2]}

\* the segmentations drawn for a stream of n bytes: one chunk, chunks of
\* 1..MaxChunk bytes
CutSets(n) == {{}} \cup {{c \in 1..n : c % k = 0} : k \in 1..MaxChunk}

VARIABLES
    inp,    \* what was drawn: the kind of input and what it was made from
    hp,     \* the arguments of read_gz_header2, carried across its calls
    hret,   \* what the last call of read_gz_header2 returned ("" before)
    gz,     \* the GzDecoder with its CrcReader, DEFLATE engine and reader
    dres,   \* what the last call of GzDecoder::read returned
    obs,    \* what the caller of the decoder has seen so far
    enc,    \* the GzEncoder with its CrcReader, compressor and reader
    eres,   \* what the last call of GzEncoder::read returned
    eobs    \* what the caller of the encoder has seen so far

hvars == <<inp, hp, hret>>

dvars == <<gz, dres, obs>>

evars == <<enc, eres, eobs>>

vars == <<inp, hp, hret, gz, dres, obs, enc, eres, eobs>>

NoReader == Reader(<<>>, {}, {}, {})

RetNone == [kind |-> "none", err |-> "", bytes |-> <<>>, n |-> 0]

\* obs: ctor, the constructor used; eagerWB, whether the eager constructor
\* met WouldBlock; out, the bytes returned by all reads; mout, those of the current
\* member; errs, the errors other than WouldBlock that reads returned;
\* members, for each trailer accepted the reader position after it and the
\* bytes of its member; hdrOk, whether the header of the current member was
\* parsed with success; tr, the trace of the last read; fin, the outcome at
\* the first read that returned 0 bytes into a non-empty buffer or an error
\* other than WouldBlock.
NoObs ==
    [ctor |-> "", eagerWB |-> FALSE, out |-> <<>>, mout |-> <<>>, errs |-> <<>>,
     members |-> <<>>, hdrOk |-> FALSE, tr |-> NoTrace,
     fin |-> [done |-> FALSE, out |-> <<>>, err |-> ""]]

HdrIdle == hp = HeaderParse(NoReader) /\ hret = ""

DecIdle == gz = Unbuilt(NoReader) /\ dres = RetNone /\ obs = NoObs

EncRetNone == [kind |-> "none", err |-> "", n |-> 0, dst |-> 0, into |-> <<>>]

\* eobs: out, the bytes the reads returned (the first n of each buffer);
\* empty, whether a read was given an empty buffer; done, whether a read
\* into a non-empty buffer returned 0 bytes; errs, the errors returned
NoEncObs == [out |-> <<>>, empty |-> FALSE, done |-> FALSE, errs |-> <<>>]

EncIdle == enc = gz_encoder(<<>>, NoReader) /\ eres = EncRetNone /\ eobs = NoEncObs

(***************************************************************************)
(* The header parser alone, over header bytes that are well formed,        *)
(* damaged in one byte, or cut short, behind readers that deliver them     *)
(* whole, in chunks, or byte by byte with WouldBlock in between.           *)
(***************************************************************************)
\* bytes that follow a complete header in the stream
AfterHeader == <<1, 0, 0>>

HdrInputs ==
    {[kind |-> "valid", h |-> h, payload |-> <<>>,
      data |-> HeaderBytes(h) \o AfterHeader] :
        h \in HeaderSpecs}
    \cup
    UNION {{[kind |-> "damaged", h |-> h, payload |-> <<>>,
             data |-> Damage(HeaderBytes(h), p[1], p[2]) \o AfterHeader] :
                p \in DamagePoints(HeaderBytes(h))} : h \in HeaderSpecs}
    \cup
    UNION {{[kind |-> "truncated", h |-> h, payload |-> <<>>,
             data |-> Take(HeaderBytes(h), n)] :
                n \in 0..(Len(HeaderBytes(h)) - 1)} : h \in HeaderSpecs}

\* the would-block schedules drawn for a stream of n bytes: never, or before
\* every byte and before the end of input
BlockSets(n) == {{}, 0..n}

InitHdr ==
    \E i \in HdrInputs :
    \E cuts \in CutSets(Len(i.data)), wb \in BlockSets(Len(i.data)) :
        /\ wb # {} => cuts = 1..Len(i.data)
        /\ inp = [kind |-> i.kind, h |-> i.h, payload |-> i.payload, data |-> i.data,
                  cuts |-> cuts, wb |-> wb, ioerr |-> {}]
        /\ hp = HeaderParse(Reader(i.data, cuts, wb, {}))
        /\ hret = ""
        /\ DecIdle
        /\ EncIdle

\* read_gz_header2 is called, the first time or again after WouldBlock
ParseHeader ==
    /\ hret \in {"", WouldBlock}
    /\ LET Returned(i) == hp' = i.s /\ hret' = i.ret
       IN  Returned(read_gz_header2(hp))
    /\ UNCHANGED <<inp, dvars, evars>>

NextHdr == ParseHeader

SpecHdr == InitHdr /\ [][NextHdr]_vars

(***************************************************************************)
(* The decoder over whole streams.                                         *)
(***************************************************************************)
\* the number of bytes of P as a u32
Count32(P) == <<Len(P) % 65536, Len(P) \div 65536>>

\* the gzip trailer of payload P (RFC 1952): CRC32 then ISIZE
Trailer(P) == LE32(Crc32(P)) \o LE32(Count32(P))

Member(h, P) == HeaderBytes(h) \o DeflateStored(P) \o Trailer(P)

HeaderSpec(c, e, f, k) ==
    [hcrc |-> c, extra |-> e, filename |-> f, comment |-> k,
     mtime |-> <<1, 2, 3, 132>>, os |-> 3]

PlainHeader == HeaderSpec(FALSE, None, None, None)

\* the headers of the streams that are decoded
DecHeaders ==
    {PlainHeader,
     HeaderSpec(FALSE, None, Some(<<97>>), Some(<<>>)),
     HeaderSpec(TRUE, None, None, None),
     HeaderSpec(TRUE, Some(<<97>>), None, None)}

Payloads == {Take(<<97, 98, 99, 100, 101>>, k) : k \in 0..MaxPayload}

ValidStreams ==
    {[kind |-> "valid", h |-> h, payload |-> P, data |-> Member(h, P)] :
        h \in DecHeaders, P \in Payloads}

DoubleStreams ==
    {[kind |-> "double", h |-> PlainHeader, payload |-> P \o Q,
      data |-> Member(PlainHeader, P) \o Member(PlainHeader, Q)] :
        P \in Payloads, Q \in Payloads}

DamagedStreams ==
    UNION {{[kind |-> "damaged", h |-> i.h, payload |-> i.payload,
             data |-> Damage(i.data, p[1], p[2])] : p \in DamagePoints(i.data)} :
           i \in ValidStreams}

TruncatedStreams ==
    UNION {{[kind |-> "truncated", h |-> i.h, payload |-> i.payload,
             data |-> Take(i.data, n)] : n \in 0..(Len(i.data) - 1)} :
           i \in ValidStreams}

\* the fault schedules for a stream of n bytes: <<wb, ioerr>> with one
\* WouldBlock or one fatal error at one position
OneFault(n) == {<<{p}, {}>> : p \in 0..n} \cup {<<{}, {p}>> : p \in 0..n}

InitDecoder(inputs, readers(_)) ==
    \E i \in inputs : \E r \in readers(i) :
        /\ inp = [kind |-> i.kind, h |-> i.h, payload |-> i.payload, data |-> i.data,
                  cuts |-> r.cuts, wb |-> r.wb, ioerr |-> r.ioerr]
        /\ gz = Unbuilt(r)
        /\ dres = RetNone
        /\ obs = NoObs
        /\ HdrIdle
        /\ EncIdle

\* GzDecoder::new / MultiGzDecoder::new
New ==
    /\ gz.inner.tag = "Unbuilt" /\ inp.kind # "pending"
    /\ \E multi \in BOOLEAN :
          /\ gz' = GzDecoderNew(gz.r, multi)
          /\ obs' = [obs EXCEPT !.ctor = "new", !.hdrOk = (gz'.inner.tag = "Body"),
                                !.eagerWB = (gz'.inner.err = WouldBlock)]
    /\ UNCHANGED <<inp, hvars, dres, evars>>

\* GzDecoder::new2 / MultiGzDecoder::new2
New2 ==
    /\ gz.inner.tag = "Unbuilt" /\ inp.kind # "pending"
    /\ \E multi \in BOOLEAN :
          /\ gz' = GzDecoderNew2(gz.r, multi)
          /\ obs' = [obs EXCEPT !.ctor = "new2"]
    /\ UNCHANGED <<inp, hvars, dres, evars>>

IsFinal(ret, n) ==
    \/ ret.kind = "ok" /\ ret.bytes = <<>> /\ n > 0
    \/ ret.kind = "err" /\ ret.err # WouldBlock

\* what the caller has seen after a read with a buffer of n bytes returned i
Observe(o, i, n) ==
    LET allout == o.out \o i.ret.bytes
    IN  [ctor |-> o.ctor,
         eagerWB |-> o.eagerWB,
         out |-> allout,
         mout |-> IF i.tr.resets > 0 THEN i.ret.bytes ELSE o.mout \o i.ret.bytes,
         errs |-> IF i.ret.kind = "err" /\ i.ret.err # WouldBlock
                  THEN Append(o.errs, i.ret.err) ELSE o.errs,
         members |-> o.members \o
                     [k \in 1..Len(i.tr.ends) |->
                        [end |-> i.tr.ends[k],
                         bytes |-> IF k = 1 THEN o.mout ELSE <<>>]],
         hdrOk |-> IF i.tr.hdr = "ok" THEN TRUE
                   ELSE IF i.tr.hdr = "reset" THEN FALSE ELSE o.hdrOk,
         tr |-> i.tr,
         fin |-> IF ~o.fin.done /\ IsFinal(i.ret, n)
                 THEN [done |-> TRUE, out |-> allout, err |-> i.ret.err]
                 ELSE o.fin]

\* GzDecoder::read with a buffer of n bytes; the caller gives up after
\* MaxErrs errors
Read(n) ==
    /\ gz.inner.tag # "Unbuilt"
    /\ Len(obs.errs) < MaxErrs
    /\ LET Returned(i) ==
               /\ gz' = i.g
               /\ dres' = [kind |-> i.ret.kind, err |-> i.ret.err, bytes |-> i.ret.bytes,
                           n |-> n]
               /\ obs' = Observe(obs, i, n)
       IN  Returned(GzDecoderRead(gz, n))
    /\ UNCHANGED <<inp, hvars, evars>>

NextDec == New \/ New2 \/ \E n \in 0..MaxDst : Read(n)

\* readers without faults, with every drawn segmentation
CleanReaders(i) == {Reader(i.data, c, {}, {}) : c \in CutSets(Len(i.data))}

\* readers without faults that deliver everything at once
WholeReaders(i) == {Reader(i.data, {}, {}, {})}

\* readers that deliver everything at once but for one fault
FaultyReaders(i) == {Reader(i.data, {}, f[1], f[2]) : f \in OneFault(Len(i.data))}

\* readers that release one byte per call with WouldBlock between calls
TrickleReaders(i) == {Reader(i.data, 1..Len(i.data), 0..Len(i.data), {})}

Init ==
    \/ InitDecoder(ValidStreams \cup DoubleStreams \cup TruncatedStreams, CleanReaders)
    \/ InitDecoder(DamagedStreams, WholeReaders)
    \/ InitDecoder(ValidStreams \cup DoubleStreams, FaultyReaders)

Spec == Init /\ [][NextDec]_vars

(***************************************************************************)
(* The decoder behind segmenting and blocking readers.                     *)
(***************************************************************************)
\* reads with a buffer of n bytes until one returns 0 bytes or an error
RECURSIVE Drain(_, _, _)
Drain(g, n, out) ==
    LET Got(i) ==
            IF i.ret.kind = "err" THEN [out |-> out, err |-> i.ret.err]
            ELSE IF i.ret.bytes = <<>> THEN [out |-> out, err |-> ""]
            ELSE Drain(i.g, n, out \o i.ret.bytes)
    IN  Got(GzDecoderRead(g, n))

\* what the decoder built the same way yields over reader r
Outcome(r) ==
    Drain(IF obs.ctor = "new" THEN GzDecoderNew(r, gz.multi)
          ELSE GzDecoderNew2(r, gz.multi), MaxDst + 1, <<>>)

\* readers that cut the stream once, at any place
OneCutReaders(i) == {Reader(i.data, {c}, {}, {}) : c \in 1..Len(i.data)}

InitSeg == InitDecoder(ValidStreams \cup DoubleStreams, CleanReaders)
           \/ InitDecoder(ValidStreams, OneCutReaders)

SpecSeg == InitSeg /\ [][NextDec]_vars

\* readers that deliver everything at once but for one WouldBlock
OneBlockReaders(i) == {Reader(i.data, {}, {p}, {}) : p \in 0..Len(i.data)}

InitWB == InitDecoder(ValidStreams \cup DoubleStreams, TrickleReaders)
          \/ InitDecoder(ValidStreams, OneBlockReaders)

SpecWB == InitWB /\ [][NextDec]_vars

\* C2: for a valid stream, the decompressed bytes and the final outcome do
\* not depend on how the underlying reader splits the stream: they are those
\* obtained when it delivers the whole stream in one chunk.
C2_SegmentationIndependent ==
    obs.fin.done =>
        LET whole == Outcome(Reader(inp.data, {}, {}, {}))
        IN  obs.fin.out = whole.out /\ obs.fin.err = whole.err

\* a stream with a file name and a payload was decoded to its end from a
\* reader delivering one byte at a time
C2_Witness ==
    /\ obs.fin.done /\ obs.fin.err = "" /\ obs.fin.out = inp.payload
    /\ Len(inp.payload) > 1 /\ inp.h.filename.some
    /\ inp.cuts = 1..Len(inp.data)

Trickle == inp.cuts = 1..Len(inp.data) /\ inp.wb = 0..Len(inp.data)

\* C3: a decoder built by new2 over a reader that releases one byte per call
\* with WouldBlock between calls, read again after every WouldBlock, ends
\* with the full decompressed payload of the valid stream and no error.
C3_TrickleReaderYieldsPayload ==
    (Trickle /\ inp.kind = "valid" /\ obs.ctor = "new2" /\ obs.fin.done) =>
        /\ obs.fin.err = ""
        /\ obs.fin.out = inp.payload
        /\ gz.inner.tag = "End"

\* C4 as claimed: WouldBlock from the underlying reader never moves the
\* member state to Failed or Ended, whichever constructor built the decoder.
C4_WouldBlockNeverSticky ==
    /\ gz.inner.tag = "Err" => gz.inner.err # WouldBlock
    /\ (dres.kind = "err" /\ dres.err = WouldBlock) => gz.inner.tag \notin {"Err", "End"}

\* C4 amended: for a decoder built by new2, or by new when the constructor
\* met no WouldBlock, a read that returns WouldBlock leaves the member state
\* in the variant it was in (never Failed or Ended), and what had been
\* consumed stays recorded: the bytes and the outcome of the reads are those
\* over the same reader without WouldBlock.
C4_WouldBlockNotStickyInRead ==
    ~obs.eagerWB =>
        /\ gz.inner.tag = "Err" => gz.inner.err # WouldBlock
        /\ (dres.kind = "err" /\ dres.err = WouldBlock) =>
              /\ gz.inner.tag \notin {"Err", "End"}
              /\ gz.inner.tag = obs.tr.last.tag
        /\ obs.fin.done =>
              LET calm == Outcome(Reader(inp.data, inp.cuts, {}, inp.ioerr))
              IN  obs.fin.out = calm.out /\ obs.fin.err = calm.err

\* a read returned WouldBlock in the middle of the trailer and left the
\* bytes read so far in the trailer state
C4_Witness ==
    /\ dres.kind = "err" /\ dres.err = WouldBlock
    /\ gz.inner.tag = "Finished" /\ gz.inner.pos > 0 /\ gz.inner.pos < 8
    /\ obs.ctor = "new2"

(***************************************************************************)
(* Round trip: a GzEncoder is read to completion and the bytes it returned *)
(* are given to a GzDecoder.                                               *)
(***************************************************************************)
\* the headers the builder composes: never with a header CRC
EncHeaders ==
    {PlainHeader,
     HeaderSpec(FALSE, None, Some(<<97>>), Some(<<98>>)),
     HeaderSpec(FALSE, Some(<<97>>), None, None)}

\* an encoder built over payload P behind a reader that cuts it in chunks
InitRT ==
    \E P \in Payloads, h \in EncHeaders : \E c \in CutSets(Len(P)) :
        /\ inp = [kind |-> "pending", h |-> h, payload |-> P, data |-> <<>>,
                  cuts |-> {}, wb |-> {}, ioerr |-> {}]
        /\ enc = gz_encoder(HeaderBytes(h), Reader(P, c, {}, {}))
        /\ eres = EncRetNone
        /\ eobs = NoEncObs
        /\ HdrIdle
        /\ DecIdle

\* GzEncoder::read with a buffer of n bytes
EncRead(n) ==
    /\ inp.kind = "pending"
    /\ ~eobs.done
    /\ LET Returned(i) ==
               /\ enc' = i.e
               /\ eres' = [kind |-> IF i.err = "" THEN "ok" ELSE "err", err |-> i.err,
                           n |-> i.n, dst |-> n, into |-> i.into]
               /\ eobs' = [out |-> eobs.out \o Take(i.into, i.n),
                           empty |-> eobs.empty \/ n = 0,
                           done |-> i.err = "" /\ i.n = 0 /\ n > 0,
                           errs |-> IF i.err = "" THEN eobs.errs
                                    ELSE Append(eobs.errs, i.err)]
       IN  Returned(GzEncoderRead(enc, n))
    /\ UNCHANGED <<inp, hvars, dvars>>

\* the bytes the encoder returned become the stream of a decoder's reader
Feed ==
    /\ inp.kind = "pending"
    /\ eobs.done
    /\ \E c \in CutSets(Len(eobs.out)) :
          /\ inp' = [inp EXCEPT !.kind = "encoded", !.data = eobs.out, !.cuts = c]
          /\ gz' = Unbuilt(Reader(eobs.out, c, {}, {}))
    /\ UNCHANGED <<hp, hret, dres, obs, evars>>

NextRT == (\E n \in 0..MaxDst : EncRead(n)) \/ Feed \/ NextDec

SpecRT == InitRT /\ [][NextRT]_vars

\* C1: when a GzEncoder over payload P is read to completion with non-empty
\* buffers of any sizes and the bytes it returned are read through a
\* single-member GzDecoder, the decoder returns exactly the bytes of P, then
\* Ok(0), and no read of either reports an error.
C1_RoundTrip ==
    (inp.kind = "encoded" /\ ~eobs.empty /\ ~gz.multi) =>
        /\ eobs.errs = <<>>
        /\ ~obs.fin.done => (obs.errs = <<>> /\ obs.out = Take(inp.payload, Len(obs.out)))
        /\ obs.fin.done => (obs.fin.err = "" /\ obs.fin.out = inp.payload)

\* a payload of two bytes went through an encoder with a file name in its
\* header and came back whole from a single-member decoder, which then
\* returned Ok(0)
C1_Witness ==
    /\ inp.kind = "encoded" /\ ~eobs.empty /\ ~gz.multi /\ gz.inner.tag # "Unbuilt"
    /\ obs.fin.done /\ obs.fin.err = "" /\ obs.fin.out = inp.payload
    /\ Len(inp.payload) = MaxPayload /\ inp.h.filename.some
    /\ dres.kind = "ok" /\ dres.bytes = <<>> /\ dres.n > 0

(***************************************************************************)
(* Properties of the decoder.                                              *)
(***************************************************************************)
Built == gz.inner.tag # "Unbuilt"

FatalReturned == dres.kind = "err" /\ dres.err # WouldBlock

\* C5: an error that is not WouldBlock is returned by exactly one read, the
\* decoder is then Ended, and every later read returns Ok(0): no second
\* error and no further byte follows the first error.
C5_FatalErrorStickyAndReportedOnce ==
    /\ FatalReturned => gz.inner.tag = "End"
    /\ Len(obs.errs) <= 1
    /\ obs.errs # <<>> => gz.inner.tag = "End" /\ obs.out = obs.fin.out

\* the header that the drawn header bytes describe
ParsedHeader(h) ==
    [extra |-> h.extra, filename |-> h.filename, comment |-> h.comment,
     operating_system |-> h.os,
     mtime |-> <<h.mtime[1] + 256 * h.mtime[2], h.mtime[3] + 256 * h.mtime[4]>>]

\* C6: header() returns a header only if the header parse of the current
\* member has completed successfully, and then the parsed header; it
\* returns none while the header is being parsed, in Failed, and whenever
\* the header parse of the current member did not succeed.
C6_HeaderOnlyAfterSuccessfulParse ==
    Built =>
        /\ header(gz).some <=> obs.hdrOk
        /\ (header(gz).some /\ inp.kind \in {"valid", "double"}) =>
              header(gz).v = ParsedHeader(inp.h)

\* the 8 bytes of the stream that end at reader position e
TrailerAt(e) == SubSeq(inp.data, e - 7, e)

\* the read that returned last ran its last iteration in the trailer state
EndedInTrailer == obs.tr.last.tag = "Finished"

\* C10: the decoder leaves the trailer state for Ended or for the next
\* member only when all 8 trailer bytes were read, the stored CRC-32 is the
\* CRC-32 of the decompressed bytes of the member and the stored ISIZE is
\* their count; a mismatch makes the read fail with the corrupt error, and a
\* read of 0 bytes before the eighth byte with UnexpectedEof.
C10_TrailerValidation ==
    /\ \A k \in 1..Len(obs.members) :
          LET m == obs.members[k]
              t == TrailerAt(m.end)
          IN  /\ m.end >= 8
              /\ Len(t) = 8
              /\ <<t[1] + 256 * t[2], t[3] + 256 * t[4]>> = Crc32(m.bytes)
              /\ <<t[5] + 256 * t[6], t[7] + 256 * t[8]>>
                    = <<Len(m.bytes) % 65536, Len(m.bytes) \div 65536>>
    /\ (gz.inner.tag = "End" /\ obs.errs = <<>> /\ ~obs.eagerWB) => obs.members # <<>>
    /\ (EndedInTrailer /\ FatalReturned /\ dres.err # "TimedOut") =>
          IF obs.tr.last.pos < 8
          THEN dres.err = UnexpectedEof /\ gz.r.pos = Len(inp.data)
          ELSE /\ dres.err = corrupt
               /\ finish(obs.tr.last.buf) # <<Crc32(obs.mout), Count32(obs.mout)>>
               /\ obs.tr.last.buf = TrailerAt(gz.r.pos)

\* a trailer was accepted for a member with a non-empty payload, after the
\* reader had delivered it in several pieces
C10_Witness ==
    /\ obs.members # <<>> /\ obs.members[1].bytes # <<>>
    /\ gz.inner.tag = "End" /\ obs.errs = <<>>
    /\ inp.cuts # {}

(***************************************************************************)
(* Properties of the header parser.                                        *)
(***************************************************************************)
\* the header bytes the parser consumed before the two bytes of the stored
\* header CRC
BytesBeforeHcrc == SubSeq(hp.r.data, 1, hp.r.pos - hp.state.pos)

\* C7: with FHCRC set, the value compared with the stored header CRC is the
\* low 16 bits of the CRC-32 of every header byte consumed before it (the
\* fixed bytes, XLEN and the extra bytes, name and comment with their NULs),
\* and the parse returns Ok when the stored value equals it and the corrupt
\* error otherwise.  Stated for well-formed headers.
C7_HeaderCrcCoversConsumedBytes ==
    (inp.kind = "valid" /\ hp.state.tag = "Crc" /\ HasFlag(hp.flag, FHCRC)) =>
        /\ hp.state.crc = AsU16(Crc32(BytesBeforeHcrc))
        /\ hret \in {"Ok", corrupt} =>
              (hret = "Ok" <=>
                 U16LE(hp.r.data[hp.r.pos - 1], hp.r.data[hp.r.pos])
                   = AsU16(Crc32(BytesBeforeHcrc)))

\* C8: a header cut short before its last required byte never parses: once
\* the parse returns something else than WouldBlock, it is UnexpectedEof.
C8_EofInsideHeaderIsUnexpectedEof ==
    (inp.kind = "truncated" /\ hret \notin {"", WouldBlock}) =>
        hret = UnexpectedEof

\* the ten fixed bytes have been read and looked at
FixedHeaderSeen ==
    hret # "" /\ (hp.state.tag # "Header" \/ hp.state.pos = 10)

\* C9: once the 10 fixed bytes are read, the parse returns "invalid gzip
\* header" exactly when bytes 0..1 are not 1F 8B or byte 2 is not 08, having
\* consumed exactly ten bytes; otherwise it has recorded the flag byte, the
\* little-endian mtime of bytes 4..7 and the OS byte 9 and gone on.
C9_FixedHeaderValidation ==
    FixedHeaderSeen =>
        LET d == hp.r.data
        IN  IF d[1] # 31 \/ d[2] # 139 \/ d[3] # 8
            THEN hret = bad_header /\ hp.r.pos = 10 /\ hp.state.tag = "Header"
            ELSE /\ hret # bad_header
                 /\ hp.state.tag # "Header"
                 /\ hp.flag = d[4]
                 /\ hp.header.mtime = <<d[5] + 256 * d[6], d[7] + 256 * d[8]>>
                 /\ hp.header.operating_system = d[10]

\* a header with magic 1F 8B and compression method 09 was rejected
C9_Witness ==
    /\ hret = bad_header
    /\ hp.r.data[1] = 31 /\ hp.r.data[2] = 139 /\ hp.r.data[3] = 9
    /\ hp.r.pos = 10

(***************************************************************************)
(* Concatenations: several members one after the other, and one member     *)
(* followed by other bytes, read by the multi-member and by the            *)
(* single-member decoder.                                                  *)
(***************************************************************************)
MaxMembers == 2

\* the sequences of 1..MaxMembers payloads
PayloadSeqs == UNION {[1..k -> Payloads] : k \in 1..MaxMembers}

\* P1 ++ ... ++ Pk
RECURSIVE Concat(_)
Concat(ps) == IF ps = <<>> THEN <<>> ELSE Head(ps) \o Concat(Tail(ps))

\* encode(P1) ++ ... ++ encode(Pk), every member with header h
Stitch(h, ps) == Concat([k \in 1..Len(ps) |-> Member(h, ps[k])])

\* the headers of the members that are concatenated
CatHeaders == {PlainHeader, HeaderSpec(FALSE, None, Some(<<97>>), Some(<<98>>))}

MultiStreams ==
    {[kind |-> "multi", h |-> h, parts |-> ps, payload |-> Concat(ps),
      data |-> Stitch(h, ps)] : h \in CatHeaders, ps \in PayloadSeqs}

\* bytes that follow a member and are not a member: zeros, the start of a
\* header, a header with a wrong method, a header and a broken body
Rests == {<<0>>, <<ID1>>, <<ID1, ID2, 9>>,
          HeaderBytes(PlainHeader) \o <<7>>}

TailedStreams ==
    {[kind |-> "tailed", h |-> PlainHeader, parts |-> <<P>>, payload |-> P,
      data |-> Member(PlainHeader, P) \o rest] : P \in Payloads, rest \in Rests}

InitCat ==
    \E i \in MultiStreams \cup TailedStreams : \E r \in CleanReaders(i) :
        /\ inp = [kind |-> i.kind, h |-> i.h, payload |-> i.payload, data |-> i.data,
                  cuts |-> r.cuts, wb |-> r.wb, ioerr |-> r.ioerr, parts |-> i.parts]
        /\ gz = Unbuilt(r)
        /\ dres = RetNone
        /\ obs = NoObs
        /\ HdrIdle
        /\ EncIdle

SpecCat == InitCat /\ [][NextDec]_vars

\* the reader position after the k-th member of the stream
MemberEnd(k) == Len(Stitch(inp.h, Take(inp.parts, k)))

\* C11: the multi-member decoder reading encode(P1) ++ ... ++ encode(Pk)
\* returns exactly P1 ++ ... ++ Pk and then Ok(0) with no error, the input
\* being exhausted after the last trailer; the CRC and the byte count
\* compared with each member's trailer cover the decompressed bytes of that
\* member only.
C11_MultiMemberStitching ==
    (inp.kind = "multi" /\ gz.multi /\ Built) =>
        /\ obs.errs = <<>>
        /\ obs.out = Take(inp.payload, Len(obs.out))
        /\ obs.fin.done =>
              /\ obs.fin.err = "" /\ obs.fin.out = inp.payload
              /\ gz.inner.tag = "End" /\ gz.r.pos = Len(inp.data)
              /\ Len(obs.members) = Len(inp.parts)
        /\ Len(obs.members) <= Len(inp.parts)
        /\ \A k \in 1..Len(obs.members) :
              /\ obs.members[k].bytes = inp.parts[k]
              /\ obs.members[k].end = MemberEnd(k)
        /\ gz.inner.tag \in {"Body", "Finished"} =>
              /\ gz.crc = CrcUpdate(CrcNew, obs.mout)
              /\ Len(obs.members) < Len(inp.parts)
              /\ obs.mout = Take(inp.parts[Len(obs.members) + 1], Len(obs.mout))

\* MaxMembers members with non-empty payloads, delivered in several chunks,
\* were decoded to the clean end by the multi-member decoder
C11_Witness ==
    /\ inp.kind = "multi" /\ gz.multi /\ obs.fin.done /\ obs.fin.err = ""
    /\ Len(inp.parts) = MaxMembers /\ \A k \in 1..MaxMembers : inp.parts[k] # <<>>
    /\ Len(obs.members) = MaxMembers /\ obs.fin.out = inp.payload
    /\ inp.cuts # {}

\* C12: the single-member decoder reading encode(P1) ++ rest returns exactly
\* P1 and then Ok(0) on every later read, with no error, whatever the bytes
\* of rest are (nothing, further members, or bytes that are no member).
C12_SingleMemberIgnoresRest ==
    (inp.kind \in {"multi", "tailed"} /\ ~gz.multi /\ Built) =>
        /\ obs.errs = <<>>
        /\ obs.out = Take(inp.parts[1], Len(obs.out))
        /\ obs.fin.done =>
              /\ obs.fin.err = "" /\ obs.fin.out = inp.parts[1]
              /\ obs.out = obs.fin.out
              /\ gz.inner.tag = "End"
        /\ (dres.kind = "ok" /\ dres.bytes = <<>> /\ dres.n > 0) => obs.out = inp.parts[1]

\* the single-member decoder returned the payload of a member that is
\* followed by a header with a wrong method, and a read after the end
\* returned Ok(0) again
C12_Witness ==
    /\ inp.kind = "tailed" /\ ~gz.multi /\ inp.payload # <<>>
    /\ Len(inp.data) = Len(Member(PlainHeader, inp.payload)) + 3
    /\ obs.fin.done /\ obs.out = inp.payload /\ obs.errs = <<>>
    /\ obs.tr.last.tag = "End"
    /\ dres.kind = "ok" /\ dres.bytes = <<>> /\ dres.n > 0

(***************************************************************************)
(* Truncation.                                                             *)
(***************************************************************************)
\* C13: a decoder reading a proper prefix of a valid single-member stream
\* reports an error, UnexpectedEof or the corrupt error: no read into a
\* non-empty buffer returns Ok(0), the decoder is never Ended without an
\* error having been returned, and what it returns before the error is the
\* beginning of the payload.
C13_TruncationDetected ==
    (inp.kind = "truncated" /\ Built) =>
        /\ gz.inner.tag = "End" => obs.errs # <<>>
        /\ obs.fin.done => obs.fin.err \in {UnexpectedEof, corrupt}
        /\ \A k \in 1..Len(obs.errs) : obs.errs[k] \in {UnexpectedEof, corrupt}
        /\ obs.out = Take(inp.payload, Len(obs.out))

\* a stream cut inside the file name of its header was read and the read
\* returned UnexpectedEof
C13_Witness ==
    /\ inp.kind = "truncated" /\ inp.h.filename.some /\ Len(inp.data) = HEADER_LEN + 1
    /\ obs.fin.done /\ obs.fin.err = UnexpectedEof
    /\ gz.inner.tag = "End"

(***************************************************************************)
(* Properties of the encoder.                                              *)
(***************************************************************************)
\* the three parts of the encoder's output for the drawn header and payload:
\* the header bytes, what the compressor produces, and the trailer
EncParts == <<enc.header, DeflateStored(inp.payload), Trailer(inp.payload)>>

\* C14: when every read is given a non-empty buffer, the bytes returned so
\* far are the beginning of header_bytes ++ engine output ++ trailer; while
\* the header is not fully copied only header bytes were returned; no byte
\* of the trailer is returned before the engine has reported end-of-stream
\* (eof), and at eof the engine has delivered all of its output.
C14_EncoderPhaseOrdering ==
    ~eobs.empty =>
        LET hdr == EncParts[1]
            body == EncParts[2]
            trl == EncParts[3]
        IN  /\ eobs.errs = <<>>
            /\ eobs.out = Take(hdr \o body \o trl, Len(eobs.out))
            /\ (~enc.eof /\ enc.pos < Len(hdr)) => eobs.out = Take(hdr, enc.pos)
            /\ ~enc.eof =>
                  /\ Len(eobs.out) <= Len(hdr) + Len(body)
                  /\ Len(eobs.out) > Len(hdr) => enc.inner.comp.finished
                  /\ Len(eobs.out) + Len(enc.inner.comp.outq) > Len(hdr) =>
                        Len(eobs.out) + Len(enc.inner.comp.outq) = Len(hdr) + Len(body)
            /\ enc.eof =>
                  /\ enc.inner.comp.finished /\ enc.inner.comp.outq = <<>>
                  /\ eobs.out = hdr \o body \o Take(trl, enc.pos)
            /\ eobs.done => eobs.out = hdr \o body \o trl

\* an encoder with a file name in its header and a payload of MaxPayload
\* bytes was read to its end with non-empty buffers
C14_Witness ==
    /\ ~eobs.empty /\ eobs.done /\ enc.eof /\ enc.pos = TRAILER_LEN
    /\ Len(inp.payload) = MaxPayload /\ inp.h.filename.some
    /\ Len(eobs.out) = Len(enc.header) + Len(DeflateStored(inp.payload)) + TRAILER_LEN

\* GzEncoder::read with a buffer of n bytes, called again after a read into
\* a non-empty buffer has returned Ok(0)
EncReadAgain(n) ==
    /\ inp.kind = "pending"
    /\ eobs.done
    /\ LET Returned(i) ==
               /\ enc' = i.e
               /\ eres' = [kind |-> IF i.err = "" THEN "ok" ELSE "err", err |-> i.err,
                           n |-> i.n, dst |-> n, into |-> i.into]
               /\ eobs' = [eobs EXCEPT !.out = @ \o Take(i.into, i.n),
                                       !.empty = @ \/ n = 0,
                                       !.errs = IF i.err = "" THEN @
                                                ELSE Append(@, i.err)]
       IN  Returned(GzEncoderRead(enc, n))
    /\ UNCHANGED <<inp, hvars, dvars>>

NextEnc == \E n \in 0..MaxDst : EncRead(n) \/ EncReadAgain(n)

\* the encoder alone, read with buffers of 0..MaxDst bytes, also after its
\* end
SpecEnc == InitRT /\ [][NextEnc]_vars

\* the bytes the encoder has pulled from its source
Pulled == Take(enc.inner.r.data, enc.inner.r.pos)

\* the trailer of the bytes pulled from the source
FooterBytes == LE32(Crc32(Pulled)) \o LE32(Count32(Pulled))

TrailerDelivered == enc.eof /\ enc.pos = TRAILER_LEN

\* C15: the trailer the encoder delivers is 8 bytes in all however the
\* reads split it, the little-endian CRC-32 of the bytes pulled from the
\* source and then their count; once the eighth byte is delivered every
\* later read returns Ok(0) and changes nothing in the encoder.
C15_TrailerEightBytesThenZero ==
    /\ [](enc.eof =>
            /\ enc.pos <= TRAILER_LEN /\ enc.pos <= Len(eobs.out)
            /\ SubSeq(eobs.out, Len(eobs.out) - enc.pos + 1, Len(eobs.out))
                  = Take(FooterBytes, enc.pos))
    /\ [](eobs.done => TrailerDelivered)
    /\ [][enc.eof => /\ enc'.eof /\ enc'.pos = enc.pos + eres'.n
                     /\ enc'.inner = enc.inner]_vars
    /\ [][TrailerDelivered => /\ enc' = enc
                              /\ eres'.kind = "ok" /\ eres'.n = 0
                              /\ eobs'.out = eobs.out]_vars

\* after the eighth trailer byte a further read into a non-empty buffer
\* returned Ok(0)
C15_Witness ==
    /\ TrailerDelivered /\ eobs.done /\ eres.kind = "ok" /\ eres.n = 0 /\ eres.dst > 0
    /\ Len(eobs.out) = Len(enc.header) + Len(DeflateStored(inp.payload)) + TRAILER_LEN
    /\ inp.payload # <<>>

(***************************************************************************)
(* The optional fields of the header, as the bytes of the stream give them *)
(* (RFC 1952, 2.3): XLEN and the extra bytes after the tenth byte, then    *)
(* the name and the comment, each up to its NUL.                           *)
(***************************************************************************)
\* the flag byte of the stream
Flg == hp.r.data[4]

Xlen == U16LE(hp.r.data[HEADER_LEN + 1], hp.r.data[HEADER_LEN + 2])

\* the index of the last byte of the extra section
ExtraEnd == IF HasFlag(Flg, FEXTRA) THEN HEADER_LEN + 2 + Xlen ELSE HEADER_LEN

\* the bytes of data from index i up to the next NUL (or the end of data)
RECURSIVE UpToNul(_, _)
UpToNul(data, i) ==
    IF i > Len(data) \/ data[i] = 0 THEN <<>>
    ELSE <<data[i]>> \o UpToNul(data, i + 1)

NameBytes == UpToNul(hp.r.data, ExtraEnd + 1)

\* the index of the NUL of the name
NameEnd == IF HasFlag(Flg, FNAME) THEN ExtraEnd + Len(NameBytes) + 1 ELSE ExtraEnd

CommentBytes == UpToNul(hp.r.data, NameEnd + 1)

\* the header with all four flags and nothing in its fields
AllFlagsEmpty == HeaderSpec(TRUE, Some(<<>>), Some(<<>>), Some(<<>>))

\* C16: whenever the header parser returns Ok, extra is present iff FEXTRA
\* is set and then holds XLEN bytes, filename is present iff FNAME is set
\* and comment iff FCOMMENT is set, each holding the bytes before its NUL;
\* and the header with FEXTRA, FNAME, FCOMMENT and FHCRC set, XLEN 0, empty
\* name, empty comment and a correct header CRC parses with success.
C16_OptionalFieldsMatchFlags ==
    /\ hret = "Ok" =>
          /\ hp.flag = Flg
          /\ hp.header.extra.some <=> HasFlag(Flg, FEXTRA)
          /\ hp.header.extra.some =>
                /\ Len(hp.header.extra.v) = Xlen
                /\ hp.header.extra.v = SubSeq(hp.r.data, HEADER_LEN + 3, ExtraEnd)
          /\ hp.header.filename.some <=> HasFlag(Flg, FNAME)
          /\ hp.header.filename.some => hp.header.filename.v = NameBytes
          /\ hp.header.comment.some <=> HasFlag(Flg, FCOMMENT)
          /\ hp.header.comment.some => hp.header.comment.v = CommentBytes
    /\ (inp.kind = "valid" /\ inp.h = AllFlagsEmpty /\ hret \notin {"", WouldBlock}) =>
          hret = "Ok"

\* the header with all four flags, XLEN 0, empty name and empty comment was
\* parsed with success from a reader delivering one byte at a time
C16_Witness ==
    /\ inp.kind = "valid" /\ inp.h = AllFlagsEmpty /\ hret = "Ok"
    /\ hp.header.extra = Some(<<>>) /\ hp.header.filename = Some(<<>>)
    /\ hp.header.comment = Some(<<>>)
    /\ inp.cuts = 1..Len(inp.data)

(***************************************************************************)
(* What the decoder consumes from the underlying reader.  Behind a reader  *)
(* that reports WouldBlock between bytes every step of the decoder is      *)
(* seen from outside.                                                      *)
(***************************************************************************)
\* the reader position at which the current member starts
MemberStart ==
    IF obs.members = <<>> THEN 0 ELSE obs.members[Len(obs.members)].end

\* the reader position at which member k of the members read so far starts
StartOf(k) == IF k = 1 THEN 0 ELSE obs.members[k - 1].end

\* C17: the header parser, on Ok, has consumed exactly the header bytes and
\* leaves the reader at the first DEFLATE byte; after a valid trailer the
\* single-member decoder consumes no further byte; the multi-member
\* decoder's look for a following member consumes nothing, so that the
\* fresh header parser reads the bytes of the next member from its first.
C17_NoConsumptionPastMember ==
    /\ []((Built /\ ~obs.eagerWB /\ inp.kind \in {"valid", "double"}) =>
            /\ (gz.inner.tag = "Body" /\ gz.infl = InflateNew) =>
                  gz.r.pos = MemberStart + Len(HeaderBytes(inp.h))
            /\ (gz.inner.tag = "Header" /\ gz.inner.state.tag = "Header") =>
                  /\ gz.r.pos = MemberStart + gz.inner.state.pos
                  /\ Take(gz.inner.state.buf, gz.inner.state.pos)
                        = SubSeq(inp.data, MemberStart + 1, gz.r.pos)
            /\ \A k \in 1..Len(obs.members) :
                  obs.members[k].end
                     = StartOf(k) + Len(Member(inp.h, obs.members[k].bytes))
            /\ (~gz.multi /\ gz.inner.tag = "End" /\ obs.errs = <<>>) =>
                  /\ Len(obs.members) = 1
                  /\ gz.r.pos = obs.members[1].end)
    /\ [][gz.inner.tag = "End" => gz'.r = gz.r]_vars

\* the multi-member decoder, behind a reader that blocks between bytes, has
\* accepted the trailer of the first member and read the first byte of the
\* header of the second
C17_Witness ==
    /\ inp.kind = "double" /\ gz.multi /\ Trickle
    /\ Len(obs.members) = 1 /\ obs.members[1].bytes # <<>>
    /\ gz.inner.tag = "Header" /\ gz.inner.state.tag = "Header"
    /\ gz.inner.state.pos = 1 /\ gz.inner.state.buf[1] = ID1
    /\ gz.r.pos = obs.members[1].end + 1

(***************************************************************************)
(* Reads that return 0 bytes.                                              *)
(***************************************************************************)
\* the read that returned last was given a non-empty buffer and returned
\* Ok(0)
ZeroIntoNonEmpty == dres.kind = "ok" /\ dres.bytes = <<>> /\ dres.n > 0

\* C18: a read with a non-empty destination returns Ok(0) only if the
\* member state is Ended when it returns; the multi-member decoder goes on
\* through header, body, trailer and following members, so that a member
\* with an empty payload followed by another member does not make a read
\* return Ok(0) before the data of the later member.
C18_ZeroOnlyWhenEnded ==
    ZeroIntoNonEmpty =>
        /\ gz.inner.tag = "End"
        /\ obs.tr.last.tag = "End"
        /\ (inp.kind = "double" /\ gz.multi /\ inp.wb = {} /\ inp.ioerr = {}) =>
              obs.out = inp.payload

\* the multi-member decoder read a member with an empty payload followed by
\* a member with a payload, returned that payload and then Ok(0)
C18_Witness ==
    /\ ZeroIntoNonEmpty /\ inp.kind = "double" /\ gz.multi
    /\ Len(obs.members) = 2 /\ obs.members[1].bytes = <<>>
    /\ obs.members[2].bytes # <<>> /\ obs.out = inp.payload
    /\ obs.errs = <<>>

\* C19: a read with an empty destination while the member state is Body
\* returns Ok(0), does not call the DEFLATE engine, consumes nothing from
\* the underlying reader and leaves the member state Body.
C19_EmptyReadInBodyChangesNothing ==
    [][(gz.inner.tag = "Body" /\ dres'.n = 0) =>
          /\ dres'.kind = "ok" /\ dres'.bytes = <<>>
          /\ gz'.inner = gz.inner /\ gz'.infl = gz.infl /\ gz'.r = gz.r
          /\ gz' = gz
          /\ obs'.out = obs.out /\ obs'.errs = obs.errs]_vars

\* a read with an empty destination returned Ok(0) in the middle of the
\* body, behind a reader that would have reported WouldBlock had it been
\* asked
C19_Witness ==
    /\ dres.kind = "ok" /\ dres.n = 0 /\ gz.inner.tag = "Body"
    /\ obs.out # <<>> /\ Len(obs.out) < Len(inp.payload)
    /\ Trickle /\ gz.r.pos \in gz.r.wb

(***************************************************************************)
(* The loops of read_gz_header2 and of GzDecoder::read, one iteration per  *)
(* step: the header parser alone, and the decoder built by new (whose      *)
(* constructor runs the parser) or by new2.                                *)
(***************************************************************************)
\* what a call that has not returned yet shows
InLoop == "continue"

Constructing == "constructing"

\* the arguments of read_gz_header2 that the decoder g holds
ParserOf(g) ==
    [r |-> g.r, state |-> g.inner.state, header |-> g.header,
     flag |-> g.inner.flag, hasher |-> g.inner.hasher]

\* the decoder g after an iteration of the parser left s
WithParser(g, s) ==
    [g EXCEPT !.r = s.r, !.header = s.header, !.inner.state = s.state,
              !.inner.flag = s.flag, !.inner.hasher = s.hasher]

\* the arm GzState::Header of GzDecoder::read, one iteration of the loop of
\* read_gz_header2 at a time
ReadHeaderIter(g) ==
    LET Got(i, g2) ==
            IF i.ret = "continue" THEN [g |-> g2, ret |-> RetContinue]
            ELSE IF i.ret = "Ok"
            THEN [g |-> [g2 EXCEPT !.inner = GzState("Body")], ret |-> RetContinue]
            ELSE IF i.ret = WouldBlock THEN [g |-> g2, ret |-> RetErr(i.ret)]
            ELSE NextErr(g2, i.ret)
        Ran(i) == Got(i, WithParser(g, i.s))
    IN  Ran(HdrIter(ParserOf(g)))

\* GzDecoder::new, one iteration of the loop of read_gz_header2 at a time:
\* built is whether the constructor has returned
NewIter(g) ==
    LET Got(i, g2) ==
            IF i.ret = "continue" THEN [g |-> g2, built |-> FALSE]
            ELSE IF i.ret = "Ok"
            THEN [g |-> [g2 EXCEPT !.inner = GzState("Body")], built |-> TRUE]
            ELSE [g |-> [g2 EXCEPT !.inner = GzStateErr(i.ret)], built |-> TRUE]
        Ran(i) == Got(i, WithParser(g, i.s))
    IN  Ran(HdrIter(ParserOf(g)))

\* the header bytes given to the parser that is stepped: the headers of
\* DecHeaders, well formed, damaged in one byte, or cut short
StepHdrInputs == {i \in HdrInputs : i.h \in DecHeaders}

InitHdrSteps ==
    \E i \in StepHdrInputs :
    \E cuts \in CutSets(Len(i.data)), wb \in BlockSets(Len(i.data)) :
        /\ wb # {} => cuts = 1..Len(i.data)
        /\ inp = [kind |-> i.kind, h |-> i.h, payload |-> i.payload, data |-> i.data,
                  cuts |-> cuts, wb |-> wb, ioerr |-> {}]
        /\ hp = HeaderParse(Reader(i.data, cuts, wb, {}))
        /\ hret = ""
        /\ DecIdle
        /\ EncIdle

\* the streams and readers of the decoders that are stepped
InitSteps ==
    \/ InitDecoder(ValidStreams \cup DoubleStreams, CleanReaders)
    \/ InitDecoder(TruncatedStreams, WholeReaders)
    \/ InitDecoder(ValidStreams, TrickleReaders)
    \/ InitHdrSteps

\* read_gz_header2 is called, the first time or again after WouldBlock
HdrCall ==
    /\ gz = Unbuilt(NoReader)
    /\ hret \in {"", WouldBlock}
    /\ hret' = InLoop
    /\ UNCHANGED <<inp, hp, dvars, evars>>

\* one iteration of the loop of read_gz_header2
HdrStep ==
    /\ hret = InLoop
    /\ LET Ran(i) == hp' = i.s /\ hret' = i.ret
       IN  Ran(HdrIter(hp))
    /\ UNCHANGED <<inp, dvars, evars>>

\* GzDecoder::new / MultiGzDecoder::new is called
NewCall ==
    /\ gz.inner.tag = "Unbuilt" /\ gz # Unbuilt(NoReader)
    /\ \E multi \in BOOLEAN : gz' = GzDecoderNew2(gz.r, multi)
    /\ dres' = [RetNone EXCEPT !.kind = Constructing]
    /\ obs' = [obs EXCEPT !.ctor = "new"]
    /\ UNCHANGED <<inp, hvars, evars>>

\* one iteration of the loop of read_gz_header2 inside the constructor
NewStep ==
    /\ dres.kind = Constructing
    /\ LET Ran(i) ==
               /\ gz' = i.g
               /\ dres' = IF i.built THEN RetNone ELSE dres
       IN  Ran(NewIter(gz))
    /\ UNCHANGED <<inp, hvars, obs, evars>>

\* GzDecoder::new2 / MultiGzDecoder::new2
New2Call ==
    /\ gz.inner.tag = "Unbuilt" /\ gz # Unbuilt(NoReader)
    /\ \E multi \in BOOLEAN : gz' = GzDecoderNew2(gz.r, multi)
    /\ obs' = [obs EXCEPT !.ctor = "new2"]
    /\ UNCHANGED <<inp, hvars, dres, evars>>

\* GzDecoder::read is called with a buffer of n bytes
ReadCall(n) ==
    /\ gz.inner.tag # "Unbuilt"
    /\ dres.kind \notin {InLoop, Constructing}
    /\ dres' = [kind |-> InLoop, err |-> "", bytes |-> <<>>, n |-> n]
    /\ UNCHANGED <<inp, hvars, gz, obs, evars>>

\* one iteration of the loop of GzDecoder::read
ReadStep ==
    /\ dres.kind = InLoop
    /\ LET Ran(i) ==
               /\ gz' = i.g
               /\ dres' = IF i.ret.kind = "continue" THEN dres
                          ELSE [kind |-> i.ret.kind, err |-> i.ret.err,
                                bytes |-> i.ret.bytes, n |-> dres.n]
       IN  Ran(IF gz.inner.tag = "Header" THEN ReadHeaderIter(gz)
               ELSE ReadIter(gz, dres.n))
    /\ UNCHANGED <<inp, hvars, obs, evars>>

NextSteps ==
    \/ HdrCall \/ HdrStep
    \/ NewCall \/ NewStep \/ New2Call
    \/ (\E n \in 0..MaxDst : ReadCall(n)) \/ ReadStep

\* an iteration of one of the loops
Iterate == HdrStep \/ NewStep \/ ReadStep

\* whether the next iteration of the loop that is running changes anything:
\* ENABLED <<Iterate>>_vars, computed from the iteration itself
CanIterate ==
    LET HdrMoves(i) == i.s # hp \/ i.ret # hret
        NewMoves(i) == i.g # gz \/ i.built
        ReadMoves(i) == i.g # gz \/ i.ret.kind # "continue"
    IN  \/ hret = InLoop /\ HdrMoves(HdrIter(hp))
        \/ dres.kind = Constructing /\ NewMoves(NewIter(gz))
        \/ dres.kind = InLoop
              /\ ReadMoves(IF gz.inner.tag = "Header" THEN ReadHeaderIter(gz)
                           ELSE ReadIter(gz, dres.n))

\* weak fairness of Iterate, WF_vars(Iterate), written out with CanIterate
\* for its enabling condition: a loop that has been entered goes on to its
\* next iteration
IterateFair == []<>~CanIterate \/ []<><<Iterate>>_vars

SpecSteps == InitSteps /\ [][NextSteps]_vars /\ IterateFair

\* the parser state that is being iterated: the one of the parser alone or
\* the one inside the decoder
InParser(st) ==
    /\ st.tag = "Header" => st.pos <= HEADER_LEN /\ Len(st.buf) = HEADER_LEN
    /\ st.tag = "ExtraLen" => st.pos <= 2 /\ Len(st.buf) = 2
    /\ st.tag = "Crc" => st.pos <= 2 /\ Len(st.buf) = 2

ExtraAllocated(st, hdr) ==
    st.tag = "Extra" => hdr.extra.some /\ st.pos <= Len(hdr.extra.v)

\* an iteration that does not return consumes a byte or changes the variant
ParserProgress ==
    (hret = InLoop /\ hret' = InLoop) =>
        hp'.r.pos > hp.r.pos \/ hp'.state.tag # hp.state.tag

DecoderProgress ==
    (dres.kind \in {InLoop, Constructing} /\ dres'.kind = dres.kind) =>
        \/ gz'.r.pos > gz.r.pos
        \/ gz'.inner.tag # gz.inner.tag
        \/ gz'.inner.state.tag # gz.inner.state.tag

\* C20: every call of the header parser and of the decoder's read returns
\* after finitely many iterations of its loop: every iteration consumes at
\* least one byte, changes the state variant, or returns; the parser state
\* Extra is met only with header.extra allocated and its position at most
\* the length of extra; every position counter stays within its buffer (10,
\* 2, 2 and 8 bytes).
C20_CallsReturn ==
    /\ [](InParser(hp.state) /\ ExtraAllocated(hp.state, hp.header))
    /\ [](gz.inner.tag = "Header" =>
            InParser(gz.inner.state) /\ ExtraAllocated(gz.inner.state, gz.header))
    /\ [](gz.inner.tag = "Finished" =>
            gz.inner.pos <= TRAILER_LEN /\ Len(gz.inner.buf) = TRAILER_LEN)
    /\ [][ParserProgress]_vars
    /\ [][DecoderProgress]_vars
    /\ (hret = InLoop ~> hret # InLoop)
    /\ (dres.kind = InLoop ~> dres.kind # InLoop)
    /\ (dres.kind = Constructing ~> dres.kind # Constructing)

\* a read of the multi-member decoder is in its loop, parsing the extra
\* field of a header behind a reader that delivers one byte at a time
C20_Witness ==
    /\ dres.kind = InLoop /\ gz.inner.tag = "Header"
    /\ gz.inner.state.tag = "Extra" /\ gz.header.extra.some
    /\ gz.inner.state.pos < Len(gz.header.extra.v)
    /\ inp.cuts = 1..Len(inp.data)

(***************************************************************************)
(* Encoder reads with an empty buffer, and the count a read returns.       *)
(***************************************************************************)
\* whether the compressor of encoder e has handed out all of its output
EngineDelivered(e) == e.inner.comp.finished /\ e.inner.comp.outq = <<>>

\* C21: a read of the encoder with an empty buffer returns Ok(0) and leaves
\* eof and pos as they were, in the header, body and trailer phases alike;
\* eof becomes true only when the engine has delivered all of its output;
\* so the bytes returned are at every moment the beginning of
\* header_bytes ++ engine output ++ trailer, empty reads or not.
C21_EmptyReadChangesNothing ==
    /\ [][/\ eres'.dst = 0 => /\ eres'.kind = "ok" /\ eres'.n = 0
                               /\ enc'.eof = enc.eof /\ enc'.pos = enc.pos
          /\ (enc'.eof /\ ~enc.eof) => EngineDelivered(enc')]_vars
    /\ [](eobs.out = Take(EncParts[1] \o EncParts[2] \o EncParts[3], Len(eobs.out)))

\* C22: the count a successful read of the encoder returns is the number of
\* bytes the read wrote into its buffer, and these are the first bytes of
\* the buffer: a slot of the buffer was written if and only if its index is
\* at most the count.  While the header is not fully copied the compressor
\* has not been run, so its first read, in the call that copies the last
\* header bytes, does not report end-of-stream.
C22_ReturnedCountIsBytesWritten ==
    /\ eres.kind = "ok" =>
          /\ eres.n <= eres.dst /\ Len(eres.into) = eres.dst
          /\ \A i \in 1..eres.dst : (eres.into[i] # Untouched) <=> (i <= eres.n)
    /\ (~enc.eof /\ enc.pos < Len(enc.header)) => enc.inner.comp = DeflateNew

\* a read that filled its buffer with the last byte of the header and the
\* first byte of the compressor's output
C22_Witness ==
    /\ eres.kind = "ok" /\ eres.n = eres.dst /\ eres.dst > 1
    /\ ~enc.eof /\ enc.pos = Len(enc.header)
    /\ Len(eobs.out) = Len(enc.header) + 1
    /\ eres.into = <<enc.header[Len(enc.header)], DeflateStored(inp.payload)[1]>>
====
